---- MODULE Spec2Model ----
(***************************************************************************)
(* A model of the generic, data-driven room host: the path resolver, the   *)
(* token renderer, the logic evaluator, the action runtime, the statechart *)
(* interpreter wrapper and the room (GenericRoom).                         *)
(*                                                                         *)
(* Every JavaScript value (state instances, MapSchema collections, JSON    *)
(* definitions, action descriptors, events) is a Node: a record            *)
(*   [k, n, s, cls, kids]                                                  *)
(* k    : "undef" "null" "num" "str" "bool" "obj" "arr" "map" "inst"       *)
(* n    : the number (k = "num"), 1/0 (k = "bool"), the length (k = "arr") *)
(* s    : the string (k = "str"), as a sequence of atoms in which the atom *)
(*        "." is the dot character, so that "players.A.score" is          *)
(*        <<"players", ".", "A", ".", "score">> and split(".") is real     *)
(* cls  : the class name (k = "inst")                                      *)
(* kids : own properties / map entries (a function from atoms to Nodes),   *)
(*        or the elements of an array (a sequence of Nodes)                *)
(***************************************************************************)
EXTENDS Integers, Sequences, FiniteSets, TLC

VARIABLES
    root,        \* the replicated root state instance of the room (ctx.state)
    conn,        \* per session id: "fresh", "joined" (connected) or "left"
    lastEvent,   \* XStateInterpreter.lastEvent
    mstate,      \* the actor's current state value
    stopped,     \* the actor was stopped (XStateInterpreter.dispose)
    run,         \* the actions the handler on the call stack has still to run
    cur,         \* bookkeeping on the handler on the call stack (or the last one):
                 \* kind ("event", "batch"), sender (the client whose message it
                 \* handles, or whose message scheduled the batch), event (the
                 \* event that was sent, or that scheduled the batch), hid (serial
                 \* number of the handler), spoofed (some message so far carried
                 \* a sessionId field of its own)
    timers,      \* pending setTimeout callbacks, in insertion order
    broadcasts,  \* number of room.broadcast calls
    nmsgs,       \* inbound messages handled so far
    defn,        \* the game definition the room was created with
    generatedClasses, \* contents of the Map of the schemaBuilder singleton
    nbuilds,     \* schemaBuilder.build calls so far in the process
    probe,       \* inputs/outputs of the pure-function specifications
    actor        \* the XState actor: status, previous state, after delays fired

vars == <<root, conn, lastEvent, mstate, stopped, run, cur, timers,
          broadcasts, nmsgs, defn, generatedClasses, nbuilds, probe, actor>>

-----------------------------------------------------------------------------
(* Bounds of the model *)

\* inbound client messages per behaviour
MaxMsgs == 2

\* calls of schemaBuilder.build in the process, the room's own included
MaxBuilds == 2

\* candidate transitions an event has in the guard cases
MaxCands == 2

-----------------------------------------------------------------------------
(* JavaScript values *)

Empty == <<>>

Undef == [k |-> "undef", n |-> 0, s |-> <<>>, cls |-> "", kids |-> Empty]
Null == [k |-> "null", n |-> 0, s |-> <<>>, cls |-> "", kids |-> Empty]
Num(i) == [k |-> "num", n |-> i, s |-> <<>>, cls |-> "", kids |-> Empty]
Str(atoms) == [k |-> "str", n |-> 0, s |-> atoms, cls |-> "", kids |-> Empty]
Bool(b) == [k |-> "bool", n |-> IF b THEN 1 ELSE 0, s |-> <<>>, cls |-> "", kids |-> Empty]
Obj(fields) == [k |-> "obj", n |-> 0, s |-> <<>>, cls |-> "", kids |-> fields]
Arr(elems) == [k |-> "arr", n |-> Len(elems), s |-> <<>>, cls |-> "", kids |-> elems]
MapOf(entries) == [k |-> "map", n |-> 0, s |-> <<>>, cls |-> "", kids |-> entries]
Inst(c, fields) == [k |-> "inst", n |-> 0, s |-> <<>>, cls |-> c, kids |-> fields]

\* a one-atom string
S(a) == Str(<<a>>)

\* x == null  (null or undefined)
IsNullish(v) == v.k \in {"undef", "null"}

\* ToBoolean
Truthy(v) ==
    CASE v.k \in {"undef", "null"} -> FALSE
      [] v.k = "bool" -> v.n = 1
      [] v.k = "num" -> v.n # 0
      [] v.k = "str" -> v.s # <<>>
      [] OTHER -> TRUE

\* decimal digits of a non-negative array index, and back
IndexAtom(i) == ToString(i)
AtomIndex(a, len) ==
    IF \E i \in 0..(len - 1) : IndexAtom(i) = a
    THEN CHOOSE i \in 0..(len - 1) : IndexAtom(i) = a
    ELSE -1

\* String(v) for primitives, as atoms
ToStr(v) ==
    CASE v.k = "str" -> v.s
      [] v.k = "num" -> <<ToString(v.n)>>
      [] v.k = "bool" -> IF v.n = 1 THEN <<"true">> ELSE <<"false">>
      [] v.k = "undef" -> <<"undefined">>
      [] v.k = "null" -> <<"null">>
      [] OTHER -> <<"[object Object]">>

\* own property read: obj[key] on records, instances and arrays
Prop(v, key) ==
    CASE v.k \in {"obj", "inst"} ->
            IF key \in DOMAIN v.kids THEN v.kids[key] ELSE Undef
      [] v.k = "arr" ->
            IF AtomIndex(key, v.n) >= 0 THEN v.kids[AtomIndex(key, v.n) + 1]
            ELSE IF key = "length" THEN Num(v.n) ELSE Undef
      [] OTHER -> Undef

\* f with key k bound to v (k added when missing)
Put(f, key, v) == [x \in (DOMAIN f) \cup {key} |-> IF x = key THEN v ELSE f[x]]

\* f without key k
Drop(f, key) == [x \in (DOMAIN f) \ {key} |-> f[x]]

-----------------------------------------------------------------------------
(* Path Resolver: path-utils.ts *)

\* value && typeof value.get === "function" && typeof value.set === "function":
\* of the values of this model only MapSchema has get and set
isMapLike(v) == v.k = "map"

\* path.split(".").filter(Boolean): the maximal runs of atoms between dots,
\* each run concatenated into one key
RECURSIVE SplitFrom(_, _, _)
SplitFrom(atoms, i, acc) ==
    IF i > Len(atoms)
    THEN IF acc = "" THEN <<>> ELSE <<acc>>
    ELSE IF atoms[i] = "."
         THEN (IF acc = "" THEN <<>> ELSE <<acc>>) \o SplitFrom(atoms, i + 1, "")
         ELSE SplitFrom(atoms, i + 1, acc \o atoms[i])

splitPath(path) == SplitFrom(path.s, 1, "")

\* !path, for a path that is a string or undefined
NoPath(path) == ~Truthy(path)

\* MapSchema.get(key)
MapGet(m, key) == IF key \in DOMAIN m.kids THEN m.kids[key] ELSE Undef

RECURSIVE GetIn(_, _)
GetIn(current, parts) ==
    IF parts = <<>> THEN current
    ELSE IF IsNullish(current) THEN Undef
    ELSE IF isMapLike(current) THEN GetIn(MapGet(current, Head(parts)), Tail(parts))
    ELSE GetIn(Prop(current, Head(parts)), Tail(parts))

getByPath(r, path) == IF NoPath(path) THEN r ELSE GetIn(r, splitPath(path))

SetLastOnly(current, last, value) ==
    IF current.k \in {"map", "obj", "inst"}
    THEN [current EXCEPT !.kids = [x \in {last} |-> value]]
    ELSE current

\* the last step of setByPath: current.set(last, value) or lodashSet(current, last, value)
SetLast(current, last, value) ==
    CASE isMapLike(current) -> [current EXCEPT !.kids = Put(current.kids, last, value)]
      [] current.k \in {"obj", "inst"} -> [current EXCEPT !.kids = Put(current.kids, last, value)]
      [] current.k = "arr" /\ AtomIndex(last, current.n + 1) >= 0 ->
            LET i == AtomIndex(last, current.n + 1) + 1
            IN  IF i <= current.n
                THEN [current EXCEPT !.kids = [current.kids EXCEPT ![i] = value]]
                ELSE [current EXCEPT !.kids = Append(current.kids, value), !.n = current.n + 1]
      [] OTHER -> current   \* lodash.set on a non-object returns it unchanged

\* setByPath below the root: [ok, v]; ok = FALSE when the assignment of a fresh
\* container to a property of a primitive throws (strict mode TypeError)
RECURSIVE SetIn(_, _, _)
SetIn(current, parts, value) ==
    IF Len(parts) = 1 THEN [ok |-> TRUE, v |-> SetLast(current, parts[1], value)]
    ELSE
      LET key == Head(parts)
          below == IF isMapLike(current) THEN MapGet(current, key) ELSE Prop(current, key)
          next == IF IsNullish(below) THEN Obj(Empty) ELSE below
          sub == SetIn(next, Tail(parts), value)
      IN  IF current.k \in {"map", "obj", "inst"}
          THEN [ok |-> sub.ok,
                v |-> IF sub.ok THEN [current EXCEPT !.kids = Put(current.kids, key, sub.v)]
                      ELSE current]
          ELSE IF current.k = "arr"
          THEN IF AtomIndex(key, current.n) >= 0
               THEN [ok |-> sub.ok,
                     v |-> IF sub.ok
                           THEN [current EXCEPT !.kids =
                                    [current.kids EXCEPT ![AtomIndex(key, current.n) + 1] = sub.v]]
                           ELSE current]
               ELSE [ok |-> TRUE, v |-> current]  \* a named property of an array: not represented
          ELSE [ok |-> FALSE, v |-> current]

\* setByPath(root, path, value): [ok, v] with v the root after the call.
\* A path of dots only is truthy and splits into no parts: the loop is skipped,
\* last = parts[-1] is undefined, and lodash.set(root, undefined, value) casts
\* the key to the string "undefined" (the root of every call is a record or an
\* instance, never a keyed collection).
setByPath(r, path, value) ==
    IF NoPath(path) THEN [ok |-> TRUE, v |-> r]
    ELSE IF splitPath(path) = <<>> THEN [ok |-> TRUE, v |-> SetLast(r, "undefined", value)]
    ELSE SetIn(r, splitPath(path), value)

-----------------------------------------------------------------------------
(* Token Renderer: template.ts (resolveTokens over Mustache) *)

\* The atoms that open and close a ${...} placeholder, with the name they carry:
\* "${event.sessionId}" is written <<"${event", ".", "sessionId}">>.
TokenOpen == ("${event" :> "event") @@ ("${state" :> "state")
             @@ ("${data" :> "data") @@ ("${context" :> "context")
TokenClose == ("sessionId}" :> "sessionId") @@ ("value}" :> "value")
              @@ ("type}" :> "type") @@ ("index}" :> "index")

\* Mustache's escapeHtml, String(value).replace(/[&<>"'`=\/]/g, ...), on the atoms
\* of this model that hold such a character; every other atom has none
EscapeAtom(a) ==
    CASE a = "<3" -> "&lt;3"
      [] a = "a/b" -> "a&#x2F;b"
      [] a = "R&D" -> "R&amp;D"
      [] OTHER -> a

escapeHtml(atoms) == [i \in 1..Len(atoms) |-> EscapeAtom(atoms[i])]

\* Mustache Context.lookup of a dotted name: plain property reads
RECURSIVE Lookup(_, _)
Lookup(v, names) ==
    IF names = <<>> THEN v
    ELSE IF IsNullish(v) THEN Undef
    ELSE Lookup(Prop(v, Head(names)), Tail(names))

\* {{name}}: nothing for null/undefined, else the escaped String(value)
RenderValue(v) == IF IsNullish(v) THEN <<>> ELSE escapeHtml(ToStr(v))

\* index of the atom closing the placeholder opened at i, or 0
CloseOf(atoms, i) ==
    IF \E j \in (i + 1)..Len(atoms) : atoms[j] \in DOMAIN TokenClose
    THEN CHOOSE j \in (i + 1)..Len(atoms) :
            /\ atoms[j] \in DOMAIN TokenClose
            /\ \A h \in (i + 1)..(j - 1) : atoms[h] \notin DOMAIN TokenClose
    ELSE 0

\* the dotted name between an opening atom at i and its closing atom at j
TokenNames(atoms, i, j) ==
    <<TokenOpen[atoms[i]]>>
    \o SplitFrom(SubSeq(atoms, i + 1, j - 1), 1, "")
    \o <<TokenClose[atoms[j]]>>

\* renderString: ${x.y} -> {{x.y}}, then Mustache.render(template, view)
RECURSIVE RenderFrom(_, _, _)
RenderFrom(atoms, i, view) ==
    IF i > Len(atoms) THEN <<>>
    ELSE IF atoms[i] \in DOMAIN TokenOpen /\ CloseOf(atoms, i) # 0
         THEN LET j == CloseOf(atoms, i)
              IN  RenderValue(Lookup(view, TokenNames(atoms, i, j)))
                  \o RenderFrom(atoms, j + 1, view)
         ELSE <<atoms[i]>> \o RenderFrom(atoms, i + 1, view)

renderString(template, view) == Str(RenderFrom(template.s, 1, view))

\* Mustache.render throws on a template with a tag that is opened and not
\* closed ("Unclosed tag"): the atom "{{" with no atom "}}" after it
RenderThrows(template) ==
    \E i \in 1..Len(template.s) :
       /\ template.s[i] = "{{"
       /\ \A j \in (i + 1)..Len(template.s) : template.s[j] # "}}"

\* resolveTokens(value, view) throws: one of the strings it renders does
RECURSIVE ResolveThrows(_)
ResolveThrows(value) ==
    CASE value.k = "str" -> RenderThrows(value)
      [] value.k = "arr" -> \E i \in 1..value.n : ResolveThrows(value.kids[i])
      [] value.k \in {"obj", "inst", "map"} ->
            \E f \in DOMAIN value.kids : ResolveThrows(value.kids[f])
      [] OTHER -> FALSE

\* a resolveTokens that renders strings and object properties but returns
\* an array as it is
RECURSIVE resolveTokensNoArrays(_, _)
resolveTokensNoArrays(value, view) ==
    CASE IsNullish(value) -> value
      [] value.k = "str" -> renderString(value, view)
      [] value.k \in {"obj", "inst", "map"} ->
            Obj([f \in DOMAIN value.kids |-> resolveTokensNoArrays(value.kids[f], view)])
      [] OTHER -> value

RECURSIVE resolveTokens(_, _)
resolveTokens(value, view) ==
    CASE IsNullish(value) -> value
      [] value.k = "str" -> renderString(value, view)
      [] value.k = "arr" ->
            [value EXCEPT !.kids = [i \in 1..value.n |-> resolveTokens(value.kids[i], view)]]
      [] value.k \in {"obj", "inst", "map"} ->
            Obj([f \in DOMAIN value.kids |-> resolveTokens(value.kids[f], view)])
      [] OTHER -> value

-----------------------------------------------------------------------------
(* Logic Evaluator: json-logic-js, as the guards and `when` use it *)

\* ToNumber: [ok, n], ok = FALSE for NaN.  Numeric strings are the decimal
\* atoms of 0..99.
ToNum(v) ==
    CASE v.k = "num" -> [ok |-> TRUE, n |-> v.n]
      [] v.k = "bool" -> [ok |-> TRUE, n |-> v.n]
      [] v.k = "null" -> [ok |-> TRUE, n |-> 0]
      [] v.k = "str" ->
            IF v.s = <<>> THEN [ok |-> TRUE, n |-> 0]
            ELSE IF Len(v.s) = 1 /\ \E i \in 0..99 : ToString(i) = v.s[1]
                 THEN [ok |-> TRUE, n |-> CHOOSE i \in 0..99 : ToString(i) = v.s[1]]
                 ELSE [ok |-> FALSE, n |-> 0]
      [] OTHER -> [ok |-> FALSE, n |-> 0]

\* a === b (objects: by structure, the model has no object identity)
StrictEq(a, b) == a = b

\* a == b
LooseEq(a, b) ==
    CASE IsNullish(a) \/ IsNullish(b) -> IsNullish(a) /\ IsNullish(b)
      [] a.k = b.k -> a = b
      [] a.k \in {"num", "str", "bool"} /\ b.k \in {"num", "str", "bool"} ->
            ToNum(a).ok /\ ToNum(b).ok /\ ToNum(a).n = ToNum(b).n
      [] OTHER -> FALSE

\* a < b by ToNumber (two strings compare the same way when both are one digit)
LessThan(a, b) == ToNum(a).ok /\ ToNum(b).ok /\ ToNum(a).n < ToNum(b).n
LessEq(a, b) == ToNum(a).ok /\ ToNum(b).ok /\ ToNum(a).n <= ToNum(b).n

\* jsonLogic.truthy
LogicTruthy(v) == IF v.k = "arr" /\ v.n = 0 THEN FALSE ELSE Truthy(v)

\* is_logic: a non-array object with exactly one key
IsLogic(v) == v.k = "obj" /\ Cardinality(DOMAIN v.kids) = 1

LogicOp(v) == CHOOSE op \in DOMAIN v.kids : TRUE

\* the operands: logic[op], wrapped in an array when it is not one
LogicArgs(v) ==
    LET a == v.kids[LogicOp(v)] IN IF a.k = "arr" THEN a.kids ELSE <<a>>

\* var: String(a).split("."), then data = data[prop] until a null or undefined
RECURSIVE VarWalk(_, _)
VarWalk(data, props) ==
    IF props = <<>> THEN data
    ELSE IF IsNullish(data) THEN Null
    ELSE LET next == Prop(data, Head(props))
         IN  IF next.k = "undef" THEN Null ELSE VarWalk(next, Tail(props))

\* the dotted name of a var: an empty segment ("a..b") reads the property ""
VarProps(a) == IF a.k = "str" THEN SplitFrom(a.s, 1, "") ELSE <<ToStr(a)[1]>>

RECURSIVE LogicApply(_, _)
LogicApply(logic, data) ==
    IF logic.k = "arr"
    THEN [logic EXCEPT !.kids = [i \in 1..logic.n |-> LogicApply(logic.kids[i], data)]]
    ELSE IF ~IsLogic(logic) THEN logic
    ELSE
      LET op == LogicOp(logic)
          raw == LogicArgs(logic)
          arg(i) == IF i <= Len(raw) THEN LogicApply(raw[i], data) ELSE Undef
      IN  CASE op = "var" ->
                  IF IsNullish(arg(1)) \/ arg(1) = Str(<<>>) THEN data
                  ELSE VarWalk(data, VarProps(arg(1)))
            [] op = "==" -> Bool(LooseEq(arg(1), arg(2)))
            [] op = "!=" -> Bool(~LooseEq(arg(1), arg(2)))
            [] op = "===" -> Bool(StrictEq(arg(1), arg(2)))
            [] op = "!==" -> Bool(~StrictEq(arg(1), arg(2)))
            [] op = "<" -> Bool(LessThan(arg(1), arg(2)))
            [] op = "<=" -> Bool(LessEq(arg(1), arg(2)))
            [] op = ">" -> Bool(LessThan(arg(2), arg(1)))
            [] op = ">=" -> Bool(LessEq(arg(2), arg(1)))
            [] op = "!" -> Bool(~LogicTruthy(arg(1)))
            [] op = "!!" -> Bool(LogicTruthy(arg(1)))
            [] op = "and" ->
                  IF \E i \in 1..Len(raw) : ~LogicTruthy(arg(i))
                  THEN arg(CHOOSE i \in 1..Len(raw) :
                              ~LogicTruthy(arg(i)) /\ \A h \in 1..(i - 1) : LogicTruthy(arg(h)))
                  ELSE arg(Len(raw))
            [] op = "or" ->
                  IF \E i \in 1..Len(raw) : LogicTruthy(arg(i))
                  THEN arg(CHOOSE i \in 1..Len(raw) :
                              LogicTruthy(arg(i)) /\ \A h \in 1..(i - 1) : ~LogicTruthy(arg(h)))
                  ELSE arg(Len(raw))
            [] OTHER -> Undef

\* the operations jsonLogic.apply knows; the second set evaluate their
\* operands themselves, the first operand always
LogicOps ==
    {"==", "===", "!=", "!==", ">", ">=", "<", "<=", "!!", "!", "%", "log", "in", "cat",
     "substr", "+", "*", "-", "/", "min", "max", "merge", "var", "missing",
     "missing_some", "method"}
LazyOps == {"if", "?:", "filter", "map", "reduce", "all", "none", "some"}

\* jsonLogic.apply(logic, data) throws: it reaches an operation it does not
\* know ("Unrecognized operation"); `and` and `or` stop at the operand that
\* decides them
RECURSIVE LogicThrows(_, _)
LogicThrows(logic, data) ==
    IF logic.k = "arr" THEN \E i \in 1..logic.n : LogicThrows(logic.kids[i], data)
    ELSE IF ~IsLogic(logic) THEN FALSE
    ELSE
      LET op == LogicOp(logic)
          raw == LogicArgs(logic)
          passes(h) == IF op = "and" THEN LogicTruthy(LogicApply(raw[h], data))
                       ELSE ~LogicTruthy(LogicApply(raw[h], data))
      IN  CASE op \in {"and", "or"} ->
                  \E i \in 1..Len(raw) :
                     /\ LogicThrows(raw[i], data)
                     /\ \A h \in 1..(i - 1) : ~LogicThrows(raw[h], data) /\ passes(h)
            [] op \in LazyOps -> raw # <<>> /\ LogicThrows(raw[1], data)
            [] op \in LogicOps -> \E i \in 1..Len(raw) : LogicThrows(raw[i], data)
            [] OTHER -> TRUE

-----------------------------------------------------------------------------
(* Schema Builder: schema-builder.ts *)

PrimitiveTypes == {"string", "number", "boolean"}

\* has the field definition the key `kind` ("type", "ref", "map", "array")
FieldIs(fieldDef, kind) == kind \in DOMAIN fieldDef.kids

\* the class or type name a field definition gives under `kind`
FieldArg(fieldDef, kind) == fieldDef.kids[kind].s[1]

\* the names every plain record answers to through Object.prototype
InheritedNames ==
    {"valueOf", "hasOwnProperty", "isPrototypeOf", "propertyIsEnumerable", "toLocaleString",
     "__defineGetter__", "__defineSetter__", "__lookupGetter__", "__lookupSetter__",
     "constructor", "toString"}

\* dsl.classes[name] is truthy: a class of the DSL, or a member the classes
\* record inherits
HasClass(classes, name) ==
    Truthy(Prop(classes, name)) \/ name \in InheritedNames

\* validateDSL does not throw
validateDSL(dsl) ==
    /\ Truthy(Prop(dsl, "root"))
    /\ HasClass(Prop(dsl, "classes"), Prop(dsl, "root").s[1])
    /\ LET classes == Prop(dsl, "classes").kids
       IN  \A c \in DOMAIN classes : \A f \in DOMAIN classes[c].kids :
             LET fd == classes[c].kids[f]
             IN  CASE FieldIs(fd, "ref") -> HasClass(Prop(dsl, "classes"), FieldArg(fd, "ref"))
                   [] FieldIs(fd, "map") -> HasClass(Prop(dsl, "classes"), FieldArg(fd, "map"))
                   [] FieldIs(fd, "array") ->
                         \/ FieldArg(fd, "array") \in PrimitiveTypes
                         \/ HasClass(Prop(dsl, "classes"), FieldArg(fd, "array"))
                   [] OTHER -> TRUE

\* createSchemaClass: the constructor made for a class by build number `gen`
\* (every build makes new class objects; gen tells them apart)
createSchemaClass(className, classDef, gen) ==
    [cls |-> className, def |-> classDef, gen |-> gen]

\* new DynamicClass(): map fields start as an empty MapSchema, array fields as
\* an empty ArraySchema, every other field is left unset.  The instance keeps
\* the build number of its constructor in n.
New(ctor) ==
    LET fields == ctor.def.kids
        coll == {f \in DOMAIN fields : FieldIs(fields[f], "map") \/ FieldIs(fields[f], "array")}
    IN  [k |-> "inst", n |-> ctor.gen, s |-> <<>>, cls |-> ctor.cls,
         kids |-> [f \in coll |-> IF FieldIs(fields[f], "map") THEN MapOf(Empty) ELSE Arr(<<>>)]]

\* the contents of generatedClasses after build(dsl): cleared, then one
\* constructor per class of the DSL
BuildClasses(dsl, gen) ==
    LET classes == Prop(dsl, "classes").kids
    IN  [c \in DOMAIN classes |-> createSchemaClass(c, classes[c], gen)]

\* Map.get(className) on a class table: [found, ctor]
ClassGet(table, className) ==
    IF className \in DOMAIN table
    THEN [found |-> TRUE, ctor |-> table[className]]
    ELSE [found |-> FALSE, ctor |-> createSchemaClass("", Obj(Empty), 0)]

\* applyDecorators does not throw: the class a map, array or ref field names
\* is among the generated constructors
applyDecorators(table, classDef) ==
    \A f \in DOMAIN classDef.kids :
        LET fd == classDef.kids[f]
        IN  CASE FieldIs(fd, "type") -> TRUE
              [] FieldIs(fd, "map") -> ClassGet(table, FieldArg(fd, "map")).found
              [] FieldIs(fd, "array") ->
                    \/ FieldArg(fd, "array") \in PrimitiveTypes
                    \/ ClassGet(table, FieldArg(fd, "array")).found
              [] FieldIs(fd, "ref") -> ClassGet(table, FieldArg(fd, "ref")).found
              [] OTHER -> TRUE

\* build(dsl) returns: validation, both passes and the lookup of the root
\* constructor go through
build(dsl) ==
    /\ validateDSL(dsl)
    /\ \A c \in DOMAIN Prop(dsl, "classes").kids :
            applyDecorators(BuildClasses(dsl, 0), Prop(dsl, "classes").kids[c])
    /\ ClassGet(BuildClasses(dsl, 0), Prop(dsl, "root").s[1]).found

\* applyDefaults: primitive defaults of `className` are assigned, object
\* defaults are skipped
applyDefaults(instance, className, allDefaults) ==
    LET defaults == Prop(allDefaults, className)
    IN  IF ~Truthy(defaults) THEN instance
        ELSE LET prim == {f \in DOMAIN defaults.kids :
                            defaults.kids[f].k \notin {"obj", "arr", "inst", "map"}}
             IN  [instance EXCEPT !.kids =
                    [f \in (DOMAIN instance.kids) \cup prim |->
                        IF f \in prim THEN defaults.kids[f] ELSE instance.kids[f]]]

\* instantiateWithDefaults(dsl, StateClass)
instantiateWithDefaults(dsl, StateClass) ==
    IF Truthy(Prop(dsl, "defaults"))
    THEN applyDefaults(New(StateClass), Prop(dsl, "root").s[1], Prop(dsl, "defaults"))
    ELSE New(StateClass)

\* new BasePlayer() of @repo/colyseus-types
NewBasePlayer ==
    Inst("BasePlayer", [name |-> Str(<<>>), score |-> Num(0), resources |-> MapOf(Empty)])

\* Schema.toJSON / MapSchema.toJSON: an instance gives its assigned fields, a
\* map gives its entries, anything else is itself.  (Own properties that the
\* class does not declare are kept here; no cond of the definitions reads one.)
RECURSIVE toJSON(_)
toJSON(v) ==
    CASE v.k = "inst" ->
            Obj([f \in {g \in DOMAIN v.kids : ~IsNullish(v.kids[g])} |-> toJSON(v.kids[f])])
      [] v.k = "map" -> Obj([f \in DOMAIN v.kids |-> toJSON(v.kids[f])])
      [] v.k = "arr" /\ v.n > 0 -> [v EXCEPT !.kids = [i \in 1..v.n |-> toJSON(v.kids[i])]]
      [] OTHER -> v

-----------------------------------------------------------------------------
(* Action Runtime: runtime-actions.ts (standardActions)                    *)
(*                                                                         *)
(* An action takes the interpreter context and its params and returns the  *)
(* context after the call.  The context record:                            *)
(*   state   : ctx.state, the root instance                                *)
(*   data, context : ctx.data, ctx.context                                 *)
(*   classes : ctx.room.dynamicClasses, the contents of the Map it refers  *)
(*             to at the time of the call                                  *)
(*   timers  : the pending setTimeout callbacks                            *)
(*   bcast   : number of room.broadcast calls                              *)
(*   err     : an exception is propagating                                 *)
(*   by      : which handler is running (bookkeeping for the timers)       *)
(***************************************************************************)

RECURSIVE Call(_, _, _), RunList(_, _)

\* const { x } = params || {}
Param(params, name) == IF IsNullish(params) THEN Undef ELSE Prop(params, name)

\* const { type, ...rest } = action || {}
RestOf(action) ==
    IF action.k = "obj" THEN Obj(Drop(action.kids, "type")) ELSE Obj(Empty)

\* a + b on the values an increment meets: numbers (booleans and null count
\* as numbers) add, anything else concatenates as strings
Plus(a, b) ==
    IF a.k \in {"num", "bool", "null"} /\ b.k \in {"num", "bool", "null"}
    THEN Num(ToNum(a).n + ToNum(b).n)
    ELSE Str(ToStr(a) \o ToStr(b))

\* x || 0
OrZero(v) == IF Truthy(v) THEN v ELSE Num(0)

\* Object.assign(instance, data) for a record data
Assign(instance, data) ==
    IF data.k \in {"obj", "inst"}
    THEN [instance EXCEPT !.kids =
            [f \in (DOMAIN instance.kids) \cup (DOMAIN data.kids) |->
                IF f \in DOMAIN data.kids THEN data.kids[f] ELSE instance.kids[f]]]
    ELSE instance

\* an action that writes to a plain copy of the state object
WriteToCopy(ctx, path, value) ==
    LET r == setByPath(ctx.state, path, value)
    IN  [ctx EXCEPT !.state = [r.v EXCEPT !.k = "obj", !.cls = ""], !.err = ~r.ok]

\* setByPath(ctx.state, path, value) inside an action
Write(ctx, path, value) ==
    LET r == setByPath(ctx.state, path, value)
    IN  [ctx EXCEPT !.state = r.v, !.err = ~r.ok]

\* setState
setStateAdding(ctx, params) ==
    LET path == Param(params, "path")
        value == Param(params, "value")
    IN  IF Truthy(path) /\ value.k # "undef"
        THEN Write(ctx, path, Plus(OrZero(getByPath(ctx.state, path)), value))
        ELSE ctx

setState(ctx, params) ==
    LET path == Param(params, "path")
        value == Param(params, "value")
    IN  IF Truthy(path) /\ value.k # "undef" THEN Write(ctx, path, value) ELSE ctx

increment(ctx, params) ==
    LET path == Param(params, "path")
        delta == IF Param(params, "delta").k = "undef" THEN Num(1) ELSE Param(params, "delta")
    IN  IF Truthy(path)
        THEN Write(ctx, path, Plus(OrZero(getByPath(ctx.state, path)), delta))
        ELSE ctx

setFromData(ctx, params) ==
    LET statePath == Param(params, "statePath")
        dataPath == Param(params, "dataPath")
    IN  IF Truthy(statePath) /\ Truthy(dataPath)
        THEN Write(ctx, statePath, getByPath(ctx.data, dataPath))
        ELSE ctx

createInstance(ctx, params) ==
    LET className == Param(params, "className")
        statePath == Param(params, "statePath")
        data == Param(params, "data")
        got == ClassGet(ctx.classes, IF className.k = "str" /\ Len(className.s) = 1
                                     THEN className.s[1] ELSE "")
    IN  IF Truthy(className) /\ Truthy(statePath) /\ got.found
        THEN Write(ctx, statePath,
                   IF Truthy(data) THEN Assign(New(got.ctor), data) ELSE New(got.ctor))
        ELSE ctx

broadcast(ctx, params) ==
    IF Truthy(Param(params, "event")) THEN [ctx EXCEPT !.bcast = @ + 1] ELSE ctx

log(ctx, params) == ctx

\* incrementIfEqual
incrementWhatever(ctx, params) == increment(ctx, params)

incrementIfEqual(ctx, params) ==
    LET path == Param(params, "path")
        equalsPath == Param(params, "equalsPath")
        delta == IF Param(params, "delta").k = "undef" THEN Num(1) ELSE Param(params, "delta")
        expected == getByPath(ctx.state, equalsPath)
        provided == Param(params, "value")
    IN  IF ~Truthy(path) \/ ~Truthy(equalsPath) THEN ctx
        ELSE IF ~IsNullish(expected) /\ ToStr(expected) = ToStr(provided)
        THEN Write(ctx, path,
                   Plus(OrZero(getByPath(ctx.state, path)),
                        IF delta.k = "num" THEN delta ELSE Num(1)))
        ELSE ctx

\* the index picked by createInstanceFromArray and setFromArray: [ok, i]
\* PickIndex
PickIndexGiven(ctx, params, arr) ==
    LET index == Param(params, "index")
    IN  IF index.k # "num" \/ index.n < 0 \/ index.n >= arr.n
        THEN [ok |-> FALSE, i |-> 0]
        ELSE [ok |-> TRUE, i |-> index.n]

PickIndex(ctx, params, arr) ==
    LET index == Param(params, "index")
        indexStatePath == Param(params, "indexStatePath")
        fromState == getByPath(ctx.state, indexStatePath)
        idx == IF Truthy(indexStatePath) /\ fromState.k = "num" THEN fromState
               ELSE IF index.k = "num" THEN index ELSE Undef
    IN  IF idx.k # "num" \/ idx.n < 0 \/ idx.n >= arr.n
        THEN [ok |-> FALSE, i |-> 0]
        ELSE [ok |-> TRUE, i |-> idx.n]

createInstanceFromArray(ctx, params) ==
    LET className == Param(params, "className")
        statePath == Param(params, "statePath")
        arrayPath == Param(params, "arrayPath")
        arr == getByPath(ctx.data, arrayPath)
        pick == PickIndex(ctx, params, arr)
        got == ClassGet(ctx.classes, IF className.k = "str" /\ Len(className.s) = 1
                                     THEN className.s[1] ELSE "")
    IN  IF ~Truthy(className) \/ ~Truthy(statePath) \/ ~Truthy(arrayPath) THEN ctx
        ELSE IF arr.k # "arr" THEN ctx
        ELSE IF ~pick.ok THEN ctx
        ELSE IF ~got.found THEN ctx
        ELSE Write(ctx, statePath, Assign(New(got.ctor), arr.kids[pick.i + 1]))

\* Number(params?.delayMs ?? 0), as the delay setTimeout waits
DelayOf(params) ==
    LET d == Param(params, "delayMs")
    IN  IF IsNullish(d) \/ ~ToNum(d).ok \/ ToNum(d).n < 0 THEN 0 ELSE ToNum(d).n

\* the duration setTimeout(callback, after) gives its timer: Node sets a
\* duration below 1 ms, or above the 32-bit maximum, to 1 ms
TimerDelay(after) == IF after < 1 \/ after > 2147483647 THEN 1 ELSE after

\* Node keeps the pending timers of one duration in one list, in the order
\* they were set; the list a new timer joins is the pending list of its
\* duration, or a new list
TimerList(pending, duration) ==
    IF \E i \in 1..Len(pending) : pending[i].delay = duration
    THEN pending[CHOOSE i \in 1..Len(pending) : pending[i].delay = duration].lid
    ELSE LET ids == {pending[i].lid : i \in 1..Len(pending)} \cup {0}
         IN  1 + CHOOSE m \in ids : \A x \in ids : x <= m

\* the timer setTimeout(callback, after) adds to the pending timers: rem is
\* the time until Node runs it, want the time until `after` has passed
SetTimeout(pending, kind, after, actions, by, state, key) ==
    Append(pending,
           [kind |-> kind, rem |-> TimerDelay(after), want |-> after,
            delay |-> TimerDelay(after), lid |-> TimerList(pending, TimerDelay(after)),
            actions |-> actions, by |-> by, state |-> state, key |-> key])

\* a scheduleActions that runs a batch with no delay inside the call
scheduleActionsInline(ctx, params) ==
    LET actions == IF Param(params, "actions").k = "arr" THEN Param(params, "actions").kids
                   ELSE <<>>
    IN  IF actions = <<>> THEN ctx
        ELSE IF DelayOf(params) = 0 THEN RunList(ctx, actions)
        ELSE [ctx EXCEPT !.timers =
                 SetTimeout(@, "batch", DelayOf(params), actions, ctx.by, "", "")]

\* scheduleActions: setTimeout(callback over `actions`, delayMs)
scheduleActions(ctx, params) ==
    LET actions == IF Param(params, "actions").k = "arr" THEN Param(params, "actions").kids
                   ELSE <<>>
    IN  IF actions = <<>> THEN ctx
        ELSE [ctx EXCEPT !.timers =
                 SetTimeout(@, "batch", DelayOf(params), actions, ctx.by, "", "")]

setFromArray(ctx, params) ==
    LET statePath == Param(params, "statePath")
        arrayPath == Param(params, "arrayPath")
        key == Param(params, "key")
        arr == getByPath(ctx.data, arrayPath)
        pick == PickIndex(ctx, params, arr)
        item == arr.kids[pick.i + 1]
    IN  IF ~Truthy(statePath) \/ ~Truthy(arrayPath) THEN ctx
        ELSE IF arr.k # "arr" THEN ctx
        ELSE IF ~pick.ok THEN ctx
        ELSE Write(ctx, statePath,
                   IF Truthy(key) THEN Prop(item, key.s[1]) ELSE item)

\* ensureInstanceAtPath
ensureInstanceAlways(ctx, params) == createInstance(ctx, params)

ensureInstanceAtPath(ctx, params) ==
    LET className == Param(params, "className")
        statePath == Param(params, "statePath")
        data == Param(params, "data")
        got == ClassGet(ctx.classes, IF className.k = "str" /\ Len(className.s) = 1
                                     THEN className.s[1] ELSE "")
    IN  IF ~Truthy(className) \/ ~Truthy(statePath) THEN ctx
        ELSE IF ~got.found THEN ctx
        ELSE IF Truthy(getByPath(ctx.state, statePath)) THEN ctx
        ELSE Write(ctx, statePath,
                   IF data.k \in {"obj", "arr", "inst"} THEN Assign(New(got.ctor), data)
                   ELSE New(got.ctor))

\* the names of standardActions
ActionNames ==
    {"setState", "increment", "setFromData", "createInstance", "broadcast", "log",
     "incrementIfEqual", "createInstanceFromArray", "scheduleActions", "setFromArray",
     "when", "ensureInstanceAtPath"}

\* standardActions is an object literal: standardActions[actionType] also
\* finds the functions of Object.prototype.  Called as fn(ctx, rest), without
\* a receiver, the first ones throw a TypeError, the others return
InheritedThrowing ==
    {"valueOf", "hasOwnProperty", "isPrototypeOf", "propertyIsEnumerable", "toLocaleString",
     "__defineGetter__", "__defineSetter__", "__lookupGetter__", "__lookupSetter__"}
InheritedQuiet == {"constructor", "toString"}

\* typeof standardActions[actionType] === "function"
IsFunction(actionType) ==
    actionType \in ActionNames \cup InheritedThrowing \cup InheritedQuiet

\* the view `when` evaluates its cond against
WhenView(ctx) ==
    Obj([state |-> toJSON(ctx.state), data |-> ctx.data, context |-> ctx.context])

\* standardActions[actionType](ctx, params); `when` runs its branch in place.
\* RunList is the loop `for (const action of actions)` of `when` and of the
\* scheduleActions callback: an unknown action is skipped, an exception ends it.
Call(actionType, ctx, params) ==
    CASE actionType = "setState" -> setState(ctx, params)
      [] actionType = "increment" -> increment(ctx, params)
      [] actionType = "setFromData" -> setFromData(ctx, params)
      [] actionType = "createInstance" -> createInstance(ctx, params)
      [] actionType = "broadcast" -> broadcast(ctx, params)
      [] actionType = "log" -> log(ctx, params)
      [] actionType = "incrementIfEqual" -> incrementIfEqual(ctx, params)
      [] actionType = "createInstanceFromArray" -> createInstanceFromArray(ctx, params)
      [] actionType = "scheduleActions" -> scheduleActions(ctx, params)
      [] actionType = "setFromArray" -> setFromArray(ctx, params)
      [] actionType = "ensureInstanceAtPath" -> ensureInstanceAtPath(ctx, params)
      [] actionType = "when" ->
            LET cond == Param(params, "cond")
                thenActions == IF Param(params, "then").k = "arr"
                               THEN Param(params, "then").kids ELSE <<>>
                elseActions == IF Param(params, "else").k = "arr"
                               THEN Param(params, "else").kids ELSE <<>>
                result == IF Truthy(cond) THEN Truthy(LogicApply(cond, WhenView(ctx)))
                          ELSE TRUE
            IN  IF Truthy(cond) /\ LogicThrows(cond, WhenView(ctx))
                THEN [ctx EXCEPT !.err = TRUE]
                ELSE RunList(ctx, IF result THEN thenActions ELSE elseActions)
      [] actionType \in InheritedThrowing -> [ctx EXCEPT !.err = TRUE]
      [] OTHER -> ctx

\* the name an action descriptor gives under `type` ("" when it gives none)
TypeOf(action) ==
    LET ty == Param(action, "type")
    IN  IF ty.k = "str" /\ Len(ty.s) = 1 THEN ty.s[1] ELSE ""

RunList(ctx, actions) ==
    IF actions = <<>> \/ ctx.err THEN ctx
    ELSE LET action == Head(actions)
             after == IF IsFunction(TypeOf(action))
                      THEN Call(TypeOf(action), ctx, RestOf(action))
                      ELSE ctx
         IN  RunList(after, Tail(actions))

-----------------------------------------------------------------------------
(* Game definitions (inputs of the room) *)

\* "players.${event.sessionId}.<field>"
PlayerPath(field) ==
    Str(<<"players", ".", "${event", ".", "sessionId}", ".", field>>)

\* "players.${event.sessionId}.<field>.<sub>"
PlayerPath2(field, sub) ==
    Str(<<"players", ".", "${event", ".", "sessionId}", ".", field, ".", sub>>)

\* "state.players.${event.sessionId}.<field>"
StatePlayerPath(field) ==
    Str(<<"state", ".", "players", ".", "${event", ".", "sessionId}", ".", field>>)

FieldType(ty) == Obj([type |-> S(ty)])

\* DEMO_DEFINITION.schema
QuizSchema ==
    Obj([root |-> S("State"),
         classes |-> Obj(
            [Player |-> Obj([name |-> FieldType("string"),
                             score |-> FieldType("number"),
                             phase |-> FieldType("string"),
                             currentQuestion |-> Obj([ref |-> S("Question")]),
                             questionIndex |-> FieldType("number"),
                             timeLeft |-> FieldType("number"),
                             showFeedback |-> FieldType("boolean")]),
             Question |-> Obj([id |-> FieldType("string"),
                               type |-> FieldType("string"),
                               text |-> FieldType("string"),
                               choices |-> Obj([array |-> S("string")]),
                               correctAnswer |-> FieldType("string")]),
             State |-> Obj([players |-> Obj([map |-> S("Player")])])]),
         defaults |-> Obj(
            [State |-> Obj(Empty),
             Player |-> Obj([name |-> S("Player"), score |-> Num(0), phase |-> S("waiting"),
                             questionIndex |-> Num(0), timeLeft |-> Num(30),
                             showFeedback |-> Bool(FALSE), currentQuestion |-> Null]),
             Question |-> Obj([id |-> Str(<<>>), type |-> S("mcq"), text |-> Str(<<>>),
                               choices |-> Arr(<<>>), correctAnswer |-> Str(<<>>)])])])

\* DEMO_DEFINITION.data
QuizData ==
    Obj([questions |-> Arr(<<
            Obj([id |-> S("q1"), type |-> S("mcq"),
                 text |-> S("What is the capital of France?"),
                 choices |-> Arr(<<S("London"), S("Berlin"), S("Paris"), S("Madrid")>>),
                 correctAnswer |-> S("2"), timeLeft |-> Num(30)]),
            Obj([id |-> S("q2"), type |-> S("tf"),
                 text |-> Str(<<"The Earth is flat", ".">>),
                 correctAnswer |-> S("false"), timeLeft |-> Num(30)]),
            Obj([id |-> S("q3"), type |-> S("mcq"),
                 text |-> S("Which programming language is this demo written in?"),
                 choices |-> Arr(<<S("Python"), S("JavaScript"), S("Java"), S("C++")>>),
                 correctAnswer |-> S("1"), timeLeft |-> Num(30)]),
            Obj([id |-> S("q4"), type |-> S("tf"),
                 text |-> Str(<<"React is a JavaScript library for building user interfaces", ".">>),
                 correctAnswer |-> S("true"), timeLeft |-> Num(30)])>>),
         questionsCount |-> Num(4)])

\* the batch the answer transition schedules (DEMO_DEFINITION, scheduleActions.actions)
QuizAdvanceBatch ==
    Arr(<<
        Obj([type |-> S("increment"), path |-> PlayerPath("questionIndex"), delta |-> Num(1)]),
        Obj([type |-> S("when"),
             cond |-> Obj([x \in {"<"} |->
                        Arr(<<Obj([var |-> StatePlayerPath("questionIndex")]),
                              Obj([var |-> Str(<<"data", ".", "questionsCount">>)])>>)]),
             then |-> Arr(<<
                Obj([type |-> S("createInstanceFromArray"), className |-> S("Question"),
                     statePath |-> PlayerPath("currentQuestion"),
                     arrayPath |-> S("questions"),
                     indexStatePath |-> PlayerPath("questionIndex")]),
                Obj([type |-> S("setFromArray"), statePath |-> PlayerPath("timeLeft"),
                     arrayPath |-> S("questions"), key |-> S("timeLeft"),
                     indexStatePath |-> PlayerPath("questionIndex")]),
                Obj([type |-> S("setState"), path |-> PlayerPath("phase"),
                     value |-> S("question")]),
                Obj([type |-> S("setState"), path |-> PlayerPath("showFeedback"),
                     value |-> Bool(FALSE)])>>),
             else |-> Arr(<<
                Obj([type |-> S("setState"), path |-> PlayerPath("phase"),
                     value |-> S("finished")]),
                Obj([type |-> S("setState"), path |-> PlayerPath("showFeedback"),
                     value |-> Bool(FALSE)])>>)])>>)

\* DEMO_DEFINITION.machine
QuizMachine ==
    Obj([id |-> S("enhanced-quiz"),
         initial |-> S("waiting"),
         context |-> Obj(Empty),
         states |-> Obj([waiting |-> Obj([on |-> Obj(
            [start |-> Obj([actions |-> Arr(<<
                Obj([type |-> S("setState"), path |-> PlayerPath("questionIndex"),
                     value |-> Num(0)]),
                Obj([type |-> S("createInstanceFromArray"), className |-> S("Question"),
                     statePath |-> PlayerPath("currentQuestion"),
                     arrayPath |-> S("questions"), index |-> Num(0)]),
                Obj([type |-> S("setFromArray"), statePath |-> PlayerPath("timeLeft"),
                     arrayPath |-> S("questions"), key |-> S("timeLeft"), index |-> Num(0)]),
                Obj([type |-> S("setState"), path |-> PlayerPath("phase"),
                     value |-> S("question")]),
                Obj([type |-> S("setState"), path |-> PlayerPath("showFeedback"),
                     value |-> Bool(FALSE)]),
                Obj([type |-> S("log"),
                     message |-> Str(<<"Quiz started for ", "${event", ".", "sessionId}", "!">>)])
                >>)]),
             answer |-> Obj([actions |-> Arr(<<
                Obj([type |-> S("setState"), path |-> PlayerPath("phase"),
                     value |-> S("feedback")]),
                Obj([type |-> S("setState"), path |-> PlayerPath("showFeedback"),
                     value |-> Bool(TRUE)]),
                Obj([type |-> S("incrementIfEqual"), path |-> PlayerPath("score"),
                     equalsPath |-> PlayerPath2("currentQuestion", "correctAnswer"),
                     value |-> Str(<<"${event", ".", "value}">>), delta |-> Num(1)]),
                Obj([type |-> S("scheduleActions"), delayMs |-> Num(3000),
                     actions |-> QuizAdvanceBatch]),
                Obj([type |-> S("log"),
                     message |-> Str(<<"Answer submitted by ", "${event", ".", "sessionId}">>)])
                >>)]),
             restart |-> Obj([actions |-> Arr(<<
                Obj([type |-> S("setState"), path |-> PlayerPath("phase"),
                     value |-> S("waiting")]),
                Obj([type |-> S("setState"), path |-> PlayerPath("questionIndex"),
                     value |-> Num(0)]),
                Obj([type |-> S("setState"), path |-> PlayerPath("showFeedback"),
                     value |-> Bool(FALSE)]),
                Obj([type |-> S("setState"), path |-> PlayerPath("score"),
                     value |-> Num(0)])>>)])])])])])

\* DEMO_DEFINITION
EnhancedQuiz ==
    Obj([id |-> S("enhanced-quiz"), name |-> S("Quiz Demo"), version |-> Str(<<"1", ".", "0", ".", "0">>),
         schema |-> QuizSchema, machine |-> QuizMachine, data |-> QuizData])


\* the multi-quiz state DSL (`dsl` of the multi-quiz bundle)
MultiQuizSchema ==
    Obj([root |-> S("State"),
         classes |-> Obj(
            [Player |-> Obj([name |-> FieldType("string"), score |-> FieldType("number")]),
             QuestionView |-> Obj([kind |-> FieldType("string"),
                                   question |-> FieldType("string"),
                                   choices |-> Obj([array |-> S("string")])]),
             State |-> Obj([phase |-> FieldType("string"),
                            stepIndex |-> FieldType("number"),
                            timeLeftSec |-> FieldType("number"),
                            players |-> Obj([map |-> S("Player")]),
                            current |-> Obj([ref |-> S("QuestionView")])])]),
         defaults |-> Obj(
            [State |-> Obj([phase |-> S("idle"), stepIndex |-> Num(0), timeLeftSec |-> Num(30)]),
             Player |-> Obj([name |-> S("Player"), score |-> Num(0)]),
             QuestionView |-> Obj([kind |-> S("qcm"), question |-> Str(<<>>),
                                   choices |-> Arr(<<>>)])])])

-----------------------------------------------------------------------------
(* Statechart Interpreter: xstate-interpreter.ts over XState v5 *)

\* a single value or an array, as a sequence
AsList(v) == IF v.k = "arr" THEN v.kids ELSE IF IsNullish(v) THEN <<>> ELSE <<v>>

\* replaceActionsInTransition: a string is a target; the transition gets a
\* guard only inside `if (transition.actions)` and only when it has a cond
NormalTransition(t) == IF t.k = "str" THEN Obj([target |-> t]) ELSE t

HasGuard(t) == Truthy(Prop(t, "actions")) /\ Truthy(Prop(t, "cond"))

\* the event object XState is sent: { type: event, payload }
XEventSpread(eventType, payload) ==
    Obj([f \in {"type", "payload"} \cup DOMAIN payload.kids |->
            IF f \in DOMAIN payload.kids THEN payload.kids[f]
            ELSE IF f = "type" THEN S(eventType) ELSE payload])

XEvent(eventType, payload) == Obj([type |-> S(eventType), payload |-> payload])

\* the view of the guard closure: { event, context, state, data }
GuardView(xevent, machine, ctx) ==
    Obj([event |-> xevent, context |-> Prop(machine, "context"),
         state |-> ctx.state, data |-> ctx.data])

\* the guard closure: jsonLogic.apply(transition.cond, data)
GuardResult(t, xevent, machine, ctx) ==
    LogicApply(Prop(t, "cond"), GuardView(xevent, machine, ctx))

\* XState takes a candidate when it has no guard or its guard returns truthy
Enabled(t, xevent, machine, ctx) ==
    ~HasGuard(t) \/ Truthy(GuardResult(t, xevent, machine, ctx))

\* candidates taken from any state that handles the event type
CandidatesAnyState(machine, state, eventType) ==
    LET states == Prop(machine, "states")
        holders == {st \in DOMAIN states.kids :
                       ~IsNullish(Prop(Prop(states.kids[st], "on"), eventType))}
        from == IF state \in holders \/ holders = {} THEN state
                ELSE CHOOSE st \in holders : TRUE
        list == AsList(Prop(Prop(Prop(states, from), "on"), eventType))
    IN  [i \in 1..Len(list) |-> NormalTransition(list[i])]

\* the candidate transitions of the current state for an event type, in order
Candidates(machine, state, eventType) ==
    LET node == Prop(Prop(machine, "states"), state)
        here == Prop(Prop(node, "on"), eventType)
        top == Prop(Prop(machine, "on"), eventType)
        list == IF ~IsNullish(here) THEN AsList(here) ELSE AsList(top)
    IN  [i \in 1..Len(list) |-> NormalTransition(list[i])]

\* the guard closure of a candidate throws: it has no try/catch around
\* jsonLogic.apply
GuardThrows(t, xevent, machine, ctx) ==
    HasGuard(t) /\ LogicThrows(Prop(t, "cond"), GuardView(xevent, machine, ctx))

\* XState evaluates the guards of the candidates in order until one passes;
\* a guard that throws before that ends the selection with the exception
SelectionThrows(cands, xevent, machine, ctx) ==
    \E i \in 1..Len(cands) :
       /\ GuardThrows(cands[i], xevent, machine, ctx)
       /\ \A h \in 1..(i - 1) :
             /\ ~GuardThrows(cands[h], xevent, machine, ctx)
             /\ ~Enabled(cands[h], xevent, machine, ctx)

\* index of the transition XState selects among the candidates, 0 for none
Selected(cands, xevent, machine, ctx) ==
    IF \E i \in 1..Len(cands) : Enabled(cands[i], xevent, machine, ctx)
    THEN CHOOSE i \in 1..Len(cands) :
            /\ Enabled(cands[i], xevent, machine, ctx)
            /\ \A h \in 1..(i - 1) : ~Enabled(cands[h], xevent, machine, ctx)
    ELSE 0

\* a transition without target leads to no state
TargetOrNone(t, state) ==
    IF Truthy(Prop(t, "target")) THEN Prop(t, "target").s[1] ELSE ""

\* the state a transition leads to
TargetOf(t, state) ==
    IF Truthy(Prop(t, "target")) THEN Prop(t, "target").s[1] ELSE state

\* a state node with type "final": the machine is done when it is entered
IsFinal(machine, state) ==
    Prop(Prop(Prop(machine, "states"), state), "type") = S("final")

\* the keys of a state's after map
AfterKeys(machine, state) ==
    LET after == Prop(Prop(Prop(machine, "states"), state), "after")
    IN  IF after.k = "obj" THEN DOMAIN after.kids ELSE {}

\* the candidate transitions of a state's after entry, in order
AfterCandidates(machine, state, key) ==
    LET list == AsList(Prop(Prop(Prop(Prop(machine, "states"), state), "after"), key))
    IN  [i \in 1..Len(list) |-> NormalTransition(list[i])]

\* the actions XState adds for a state that has an after map: raise of the
\* delayed events at the end of its entry actions, cancel of them at the end
\* of its exit actions
Builtin(name, state) ==
    [k |-> "builtin", n |-> 0, s |-> <<name, state>>, cls |-> "", kids |-> Empty]

EntryActions(machine, state) ==
    AsList(Prop(Prop(Prop(machine, "states"), state), "entry"))
    \o (IF AfterKeys(machine, state) # {} THEN <<Builtin("raise", state)>> ELSE <<>>)

ExitActions(machine, state) ==
    AsList(Prop(Prop(Prop(machine, "states"), state), "exit"))
    \o (IF AfterKeys(machine, state) # {} THEN <<Builtin("cancel", state)>> ELSE <<>>)

\* the actions of a transition in another order: entry, transition, exit
StepActionsReversed(machine, state, t) ==
    LET target == TargetOf(t, state)
    IN  (IF target # state THEN EntryActions(machine, target) ELSE <<>>)
        \o AsList(Prop(t, "actions"))
        \o (IF target # state THEN ExitActions(machine, state) ELSE <<>>)

\* the actions of one microstep, in XState's order: exit actions of the source
\* and entry actions of the target when the state changes, the transition's
\* own actions in between
StepActions(machine, state, t) ==
    LET target == TargetOf(t, state)
    IN  (IF target # state THEN ExitActions(machine, state) ELSE <<>>)
        \o AsList(Prop(t, "actions"))
        \o (IF target # state THEN EntryActions(machine, target) ELSE <<>>)

\* the delay of an after key: the key as a number of milliseconds
AfterDelay(key) == IF ToNum(S(key)).ok THEN ToNum(S(key)).n ELSE 0

\* raise: one delayed event per after key of the state, smaller delays first
RECURSIVE RaiseAfter(_, _, _, _)
RaiseAfter(pending, state, keys, by) ==
    IF keys = {} THEN pending
    ELSE LET key == CHOOSE x \in keys : \A y \in keys : AfterDelay(x) <= AfterDelay(y)
         IN  RaiseAfter(SetTimeout(pending, "after", AfterDelay(key), <<>>, by, state, key),
                        state, keys \ {key}, by)

\* a cancel that leaves the delayed events on the clock
CancelNothing(pending, state) == pending

\* cancel: the delayed events of the state are taken off the clock
CancelAfter(pending, state) ==
    SelectSeq(pending, LAMBDA x : ~(x.kind = "after" /\ x.state = state))

\* this.lastEvent || {}
TriggeringEvent(last) == IF Truthy(last) THEN last ELSE Obj(Empty)

\* the function createXStateActions registers under actionName, called by
\* XState with the action's params: merge, render the tokens, call actionFn
\* inside try/catch; resolveTokens is called before the try, its exception
\* leaves the function (fatal)
XStateAction(actionName, actionParams, ctx, last) ==
    LET triggeringEvent == TriggeringEvent(last)
        base == IF actionParams.k = "obj" THEN actionParams.kids ELSE Empty
        untyped == IF "type" \in DOMAIN base /\ base["type"] = S(actionName)
                   THEN Drop(base, "type") ELSE base
        rawParams == IF Truthy(Prop(triggeringEvent, "sessionId"))
                        /\ ~Truthy(Prop(Obj(untyped), "sessionId"))
                     THEN Put(untyped, "sessionId", Prop(triggeringEvent, "sessionId"))
                     ELSE untyped
        view == Obj([event |-> triggeringEvent, state |-> ctx.state,
                     context |-> ctx.context, data |-> ctx.data])
        mergedParams == resolveTokens(Obj(rawParams), view)
    IN  IF ResolveThrows(Obj(rawParams)) THEN [ctx EXCEPT !.fatal = TRUE]
        ELSE [Call(actionName, ctx, mergedParams) EXCEPT !.err = FALSE]

\* one action of a transition as XState executes it: an action object
\* { type, params: action } or an action given by name; a name without an
\* implementation runs nothing
ExecAction(action, ctx, last) ==
    LET name == IF action.k = "str" /\ Len(action.s) = 1 THEN action.s[1] ELSE TypeOf(action)
        params == IF action.k = "str" THEN Undef ELSE action
    IN  IF name \in ActionNames
        THEN XStateAction(name, IF IsNullish(params) THEN Obj(Empty) ELSE params, ctx, last)
        ELSE ctx

-----------------------------------------------------------------------------
(* A definition whose go transition schedules a batch with delayMs 0, then  *)
(* runs one more action, then enters a state with an entry action; its     *)
(* back transition schedules a batch with a delay of 1000 ms.              *)

CounterSchema ==
    Obj([root |-> S("State"),
         classes |-> Obj(
            [Player |-> Obj([name |-> FieldType("string"), score |-> FieldType("number")]),
             State |-> Obj([players |-> Obj([map |-> S("Player")]),
                            done |-> FieldType("number"),
                            entered |-> FieldType("number"),
                            batches |-> FieldType("number"),
                            late |-> FieldType("number")])]),
         defaults |-> Obj([State |-> Obj([done |-> Num(0), entered |-> Num(0),
                                          batches |-> Num(0), late |-> Num(0)])])])

CounterMachine ==
    Obj([id |-> S("zero-delay"),
         initial |-> S("idle"),
         context |-> Obj(Empty),
         states |-> Obj(
            [idle |-> Obj([on |-> Obj([go |-> Obj(
                [target |-> S("armed"),
                 actions |-> Arr(<<
                    Obj([type |-> S("scheduleActions"), delayMs |-> Num(0),
                         actions |-> Arr(<<Obj([type |-> S("increment"),
                                                path |-> S("batches")])>>)]),
                    Obj([type |-> S("increment"), path |-> S("done")])>>)])])]),
             armed |-> Obj([entry |-> Arr(<<Obj([type |-> S("increment"),
                                                 path |-> S("entered")])>>),
                            on |-> Obj([back |-> Obj(
                                [target |-> S("idle"),
                                 actions |-> Arr(<<
                                    Obj([type |-> S("scheduleActions"), delayMs |-> Num(1000),
                                         actions |-> Arr(<<Obj([type |-> S("increment"),
                                                                path |-> S("late")])>>)])>>)])])])])])

ZeroDelay ==
    Obj([id |-> S("zero-delay"), name |-> S("Zero delay"),
         version |-> Str(<<"1", ".", "0", ".", "0">>),
         schema |-> CounterSchema, machine |-> CounterMachine, data |-> Obj(Empty)])

-----------------------------------------------------------------------------
(* A definition whose events schedule batches with delays of 0, 1, 2 and 3  *)
(* ms: pair schedules one with 1 ms and then one with 0 ms.                *)

Batch(delayMs, field) ==
    Obj([type |-> S("scheduleActions"), delayMs |-> Num(delayMs),
         actions |-> Arr(<<Obj([type |-> S("increment"), path |-> S(field)])>>)])

TimerSchema ==
    Obj([root |-> S("State"),
         classes |-> Obj(
            [Player |-> Obj([name |-> FieldType("string"), score |-> FieldType("number")]),
             State |-> Obj([players |-> Obj([map |-> S("Player")]),
                            zero |-> FieldType("number"), one |-> FieldType("number"),
                            two |-> FieldType("number"), three |-> FieldType("number")])]),
         defaults |-> Obj([State |-> Obj([zero |-> Num(0), one |-> Num(0),
                                          two |-> Num(0), three |-> Num(0)])])])

TimerMachine ==
    Obj([id |-> S("timer-order"),
         initial |-> S("idle"),
         context |-> Obj(Empty),
         states |-> Obj(
            [idle |-> Obj([on |-> Obj(
                [pair |-> Obj([actions |-> Arr(<<Batch(1, "one"), Batch(0, "zero")>>)]),
                 two |-> Obj([actions |-> Arr(<<Batch(2, "two")>>)]),
                 three |-> Obj([actions |-> Arr(<<Batch(3, "three")>>)])])])])])

TimerOrder ==
    Obj([id |-> S("timer-order"), name |-> S("Timer order"),
         version |-> Str(<<"1", ".", "0", ".", "0">>),
         schema |-> TimerSchema, machine |-> TimerMachine, data |-> Obj(Empty)])

-----------------------------------------------------------------------------
(* A definition with entry and exit actions, delayed transitions, a         *)
(* transition without target, one that targets its own state, and a final  *)
(* state that declares a handler.  Every action appends one letter to the   *)
(* string field trace (increment with a string delta concatenates); the    *)
(* answer transition also schedules a batch.                               *)

Mark(letter) == Obj([type |-> S("increment"), path |-> S("trace"), delta |-> S(letter)])

FlowSchema ==
    Obj([root |-> S("State"),
         classes |-> Obj(
            [Player |-> Obj([name |-> FieldType("string"), score |-> FieldType("number")]),
             State |-> Obj([players |-> Obj([map |-> S("Player")]),
                            trace |-> FieldType("string"),
                            late |-> FieldType("number")])]),
         defaults |-> Obj([State |-> Obj([trace |-> Str(<<>>), late |-> Num(0)])])])

FlowMachine ==
    Obj([id |-> S("flow"),
         initial |-> S("lobby"),
         context |-> Obj(Empty),
         states |-> Obj(
            [lobby |-> Obj(
                [exit |-> Arr(<<Mark("l")>>),
                 on |-> Obj([start |-> Obj([target |-> S("round"),
                                            actions |-> Arr(<<Mark("t")>>)]),
                             finish |-> Obj([target |-> S("finished"),
                                             actions |-> Arr(<<Mark("t")>>)]),
                             ping |-> Obj([actions |-> Arr(<<Mark("i")>>)])])]),
             round |-> Obj(
                [entry |-> Arr(<<Mark("R")>>),
                 exit |-> Arr(<<Mark("r")>>),
                 after |-> Obj([x \in {"2"} |->
                                  Obj([target |-> S("review"),
                                       actions |-> Arr(<<Mark("a")>>)])]),
                 on |-> Obj([answer |-> Obj([target |-> S("review"),
                                             actions |-> Arr(<<Mark("t"),
                                                               Batch(2, "late")>>)]),
                             ping |-> Obj([actions |-> Arr(<<Mark("i")>>)]),
                             again |-> Obj([target |-> S("round"),
                                            actions |-> Arr(<<Mark("s")>>)])])]),
             review |-> Obj(
                [entry |-> Arr(<<Mark("V")>>),
                 exit |-> Arr(<<Mark("v")>>),
                 after |-> Obj([x \in {"1"} |-> Obj([actions |-> Arr(<<Mark("b")>>)])]),
                 on |-> Obj([next |-> S("round"),
                             finish |-> Obj([target |-> S("finished"),
                                             actions |-> Arr(<<Mark("t")>>)])])]),
             finished |-> Obj(
                [type |-> S("final"),
                 entry |-> Arr(<<Mark("F")>>),
                 on |-> Obj([restart |-> Obj([target |-> S("lobby"),
                                              actions |-> Arr(<<Mark("t")>>)])])])])])

Flow ==
    Obj([id |-> S("flow"), name |-> S("Flow"),
         version |-> Str(<<"1", ".", "0", ".", "0">>),
         schema |-> FlowSchema, machine |-> FlowMachine, data |-> Obj(Empty)])

-----------------------------------------------------------------------------
(* A definition with faults: a cond with an operation jsonLogic does not    *)
(* know, action names that are not in the catalogue (in a transition, in a  *)
(* when branch, in a scheduled batch), a setState below a number, and a     *)
(* string with an unclosed Mustache tag.  The actions after a fault append  *)
(* a letter to trace, or count in late and later.                           *)

FaultySchema ==
    Obj([root |-> S("State"),
         classes |-> Obj(
            [Player |-> Obj([name |-> FieldType("string"), score |-> FieldType("number")]),
             State |-> Obj([players |-> Obj([map |-> S("Player")]),
                            trace |-> FieldType("string"),
                            note |-> FieldType("string"),
                            late |-> FieldType("number"),
                            later |-> FieldType("number")])]),
         defaults |-> Obj([State |-> Obj([trace |-> Str(<<>>), note |-> Str(<<>>),
                                          late |-> Num(0), later |-> Num(0)])])])

FaultyMachine ==
    Obj([id |-> S("faulty"),
         initial |-> S("idle"),
         context |-> Obj(Empty),
         states |-> Obj(
            [idle |-> Obj([on |-> Obj(
                [guarded |-> Arr(<<
                    Obj([target |-> S("hit"),
                         cond |-> Obj([bogus |-> Arr(<<Num(1)>>)]),
                         actions |-> Arr(<<Mark("g")>>)]),
                    Obj([target |-> S("hit"), actions |-> Arr(<<Mark("h")>>)])>>),
                 skip |-> Obj([target |-> S("hit"),
                               actions |-> Arr(<<Obj([type |-> S("nope")]), Mark("u")>>)]),
                 branch |-> Obj([actions |-> Arr(<<
                    Obj([type |-> S("when"),
                         then |-> Arr(<<Obj([type |-> S("nope")]), Mark("n"),
                                        Obj([type |-> S("valueOf")]), Mark("w")>>)])>>)]),
                 deep |-> Obj([actions |-> Arr(<<
                    Obj([type |-> S("when"),
                         then |-> Arr(<<Mark("e"),
                                        Obj([type |-> S("setState"),
                                             path |-> Str(<<"late", ".", "x", ".", "y">>),
                                             value |-> Num(1)]),
                                        Mark("d")>>)])>>)]),
                 later |-> Obj([actions |-> Arr(<<
                    Obj([type |-> S("scheduleActions"), delayMs |-> Num(1),
                         actions |-> Arr(<<
                            Obj([type |-> S("nope")]),
                            Obj([type |-> S("increment"), path |-> S("late")]),
                            Obj([type |-> S("valueOf")]),
                            Obj([type |-> S("increment"), path |-> S("later")])>>)])>>)]),
                 broken |-> Obj([target |-> S("hit"),
                                 actions |-> Arr(<<
                                    Obj([type |-> S("setState"),
                                         path |-> Str(<<"late", ".", "x", ".", "y">>),
                                         value |-> Num(1)]),
                                    Mark("p")>>)]),
                 unclosed |-> Obj([target |-> S("hit"),
                                   actions |-> Arr(<<
                                      Obj([type |-> S("setState"), path |-> S("note"),
                                           value |-> Str(<<"{{", "name">>)]),
                                      Mark("q")>>)])])]),
             hit |-> Obj([entry |-> Arr(<<Mark("H")>>),
                          on |-> Obj([reset |-> Obj([target |-> S("idle"),
                                                     actions |-> Arr(<<Mark("t")>>)])])])])])

Faulty ==
    Obj([id |-> S("faulty"), name |-> S("Faulty"),
         version |-> Str(<<"1", ".", "0", ".", "0">>),
         schema |-> FaultySchema, machine |-> FaultyMachine, data |-> Obj(Empty)])

-----------------------------------------------------------------------------
(* Room Host: GenericRoom *)

Sessions == {"A", "B"}

\* A definition whose armed state notes the sender of the event that entered
\* it, ignores back, and after 2 ms moves on and notes the sender again
Stamp(field) ==
    Obj([type |-> S("setState"), path |-> S(field),
         value |-> Str(<<"${event", ".", "sessionId}">>)])

StampSchema ==
    Obj([root |-> S("State"),
         classes |-> Obj(
            [Player |-> Obj([name |-> FieldType("string"), score |-> FieldType("number")]),
             State |-> Obj([players |-> Obj([map |-> S("Player")]),
                            entered |-> FieldType("string"),
                            who |-> FieldType("string")])]),
         defaults |-> Obj([State |-> Obj([entered |-> Str(<<>>), who |-> Str(<<>>)])])])

StampMachine ==
    Obj([id |-> S("stamp"),
         initial |-> S("idle"),
         context |-> Obj(Empty),
         states |-> Obj(
            [idle |-> Obj([on |-> Obj([go |-> Obj([target |-> S("armed")])])]),
             armed |-> Obj(
                [entry |-> Arr(<<Stamp("entered")>>),
                 after |-> Obj([x \in {"2"} |->
                                  Obj([target |-> S("fired"),
                                       actions |-> Arr(<<Stamp("who")>>)])])]),
             fired |-> Obj([on |-> Obj([back |-> Obj([target |-> S("idle")])])])])])

Stamped ==
    Obj([id |-> S("stamp"), name |-> S("Stamp"),
         version |-> Str(<<"1", ".", "0", ".", "0">>),
         schema |-> StampSchema, machine |-> StampMachine, data |-> Obj(Empty)])

Definition(id) ==
    CASE id = "zero-delay" -> ZeroDelay
      [] id = "stamp" -> Stamped
      [] id = "timer-order" -> TimerOrder
      [] id = "flow" -> Flow
      [] id = "faulty" -> Faulty
      [] OTHER -> EnhancedQuiz

Machine == Prop(Definition(defn), "machine")

\* getAllEventsFromMachine: the keys of every state's on map
AllEvents(machine) ==
    UNION {DOMAIN Prop(Prop(machine, "states").kids[st], "on").kids :
           st \in DOMAIN Prop(machine, "states").kids}

\* this.dynamicClasses = classes: the room keeps the Map object that build
\* returned, which is the generatedClasses Map of the schemaBuilder singleton
RoomClasses == generatedClasses

\* { ...a, ...b } on property tables
Spread(a, b) ==
    [f \in (DOMAIN a) \cup (DOMAIN b) |-> IF f \in DOMAIN b THEN b[f] ELSE a[f]]

\* the own properties a spread takes from a message: the properties of an
\* object, the elements of an array and the characters of a string under
\* their indices, nothing from any other value
Own(message) ==
    CASE message.k \in {"obj", "inst"} -> message.kids
      [] message.k = "arr" ->
            [x \in {IndexAtom(i) : i \in 0..(message.n - 1)} |->
                message.kids[AtomIndex(x, message.n) + 1]]
      [] message.k = "str" ->
            [x \in {IndexAtom(i) : i \in 0..(Len(message.s) - 1)} |->
                S(message.s[AtomIndex(x, Len(message.s)) + 1])]
      [] OTHER -> Empty

\* interpreterContext.context: { ...machine.context, ...data }
RoomContext(def) ==
    Obj(Spread(Own(Prop(Prop(def, "machine"), "context")), Own(Prop(def, "data"))))

\* the interpreter context the actions get
Ctx ==
    [state |-> root, data |-> Prop(Definition(defn), "data"),
     context |-> RoomContext(Definition(defn)), classes |-> RoomClasses,
     timers |-> timers, bcast |-> broadcasts, err |-> FALSE, by |-> cur,
     fatal |-> FALSE]

connected == {s \in Sessions : conn[s] = "joined"}

\* an event loop that starts a handler whatever is on the call stack
CallStackIgnored == TRUE

\* JavaScript runs a handler to completion: the next message handler or timer
\* callback starts when the call stack is empty (send and the scheduleActions
\* callback are synchronous, nothing in them awaits)
CallStackEmpty == run = <<>>

\* the player onJoin builds: an instance of the table's Player class, else a BasePlayer
NewPlayer(name) ==
    LET got == ClassGet(RoomClasses, "Player")
    IN  IF got.found
        THEN Assign(New(got.ctor), Obj([name |-> name, score |-> Num(0)]))
        ELSE Assign(NewBasePlayer, Obj([name |-> name]))

\* the root state after onJoin(client, options)
\* onJoin
onJoinAlways(state, sessionId, name) ==
    LET players == Prop(state, "players")
    IN  IF isMapLike(players)
        THEN [state EXCEPT !.kids =
                Put(state.kids, "players",
                    [players EXCEPT !.kids = Put(players.kids, sessionId, NewPlayer(name))])]
        ELSE state

onJoin(state, sessionId, name) ==
    LET players == Prop(state, "players")
    IN  IF isMapLike(players) /\ ~Truthy(MapGet(players, sessionId))
        THEN [state EXCEPT !.kids =
                Put(state.kids, "players",
                    [players EXCEPT !.kids = Put(players.kids, sessionId, NewPlayer(name))])]
        ELSE state

\* the root state after onLeave(client)
onLeave(state, sessionId) ==
    LET players == Prop(state, "players")
    IN  IF isMapLike(players)
        THEN [state EXCEPT !.kids =
                Put(state.kids, "players",
                    [players EXCEPT !.kids = Drop(players.kids, sessionId)])]
        ELSE state

\* the object the message handler forwards: { sessionId: client.sessionId, ...message }
Forwarded(sessionId, message) ==
    Obj(Spread([sessionId |-> S(sessionId)], Own(message)))

\* send: this.lastEvent = { type: event, ...(payload || {}) }
LastEventOf(eventType, payload) == Obj(Spread([type |-> S(eventType)], Own(payload)))

\* the messages the clients of the model send under an event type
Messages(eventType, sender) ==
    IF eventType = "answer"
    THEN {Obj([value |-> S("2")]), Obj([value |-> S("false")])}
         \cup {Obj([sessionId |-> S(o), value |-> S("2")]) : o \in Sessions \ {sender}}
    ELSE IF eventType = "ping"
    THEN {Obj(Empty), S("hello"), Num(7), Arr(<<S("x")>>),
          Obj([type |-> S("start")]), Obj([type |-> S("finish")])}
    ELSE {Obj(Empty)} \cup {Obj([sessionId |-> S(o)]) : o \in Sessions \ {sender}}

JoinRoom(s) ==
    /\ CallStackEmpty
    /\ ~stopped
    /\ conn[s] = "fresh"
    /\ conn' = [conn EXCEPT ![s] = "joined"]
    /\ root' = onJoin(root, s, S("Player"))
    /\ UNCHANGED <<lastEvent, mstate, stopped, run, cur, timers, broadcasts, nmsgs,
                   defn, generatedClasses, nbuilds, probe, actor>>

LeaveRoom(s) ==
    /\ CallStackEmpty
    /\ conn[s] = "joined"
    /\ conn' = [conn EXCEPT ![s] = "left"]
    /\ root' = onLeave(root, s)
    /\ UNCHANGED <<lastEvent, mstate, stopped, run, cur, timers, broadcasts, nmsgs,
                   defn, generatedClasses, nbuilds, probe, actor>>

\* the timer the event loop runs next: Node runs the due lists in the order
\* they were created, and the due timers of a list in the order they were set
NextDue(i) ==
    /\ i \in 1..Len(timers)
    /\ timers[i].rem = 0
    /\ \A h \in 1..Len(timers) :
          (h # i /\ timers[h].rem = 0) =>
             \/ timers[i].lid < timers[h].lid
             \/ timers[i].lid = timers[h].lid /\ i < h

\* the pending timers without timer i
WithoutTimer(pending, i) ==
    [h \in 1..(Len(pending) - 1) |-> IF h < i THEN pending[h] ELSE pending[h + 1]]

\* the pending timers without the delayed events of the actor
WithoutAfter(pending) == SelectSeq(pending, LAMBDA x : x.kind # "after")

\* the actor receives an event in state mstate (due: the after key of a
\* delayed event, which has now fired): a stopped actor drops it, a
\* guard that throws puts the actor in its error status (XState rethrows the
\* exception of a guard, and an actor whose transition throws stops), else
\* the selected transition is taken; a final target ends the machine
Dispatch(cands, sel, threw, pending, due) ==
    IF actor.status # "active" \/ (sel = 0 /\ ~threw)
    THEN /\ timers' = pending
         /\ actor' = [actor EXCEPT !.fired = @ \cup due]
         /\ UNCHANGED <<mstate, run>>
    ELSE IF threw
    THEN /\ timers' = WithoutAfter(pending)
         /\ actor' = [actor EXCEPT !.status = "error", !.fired = @ \cup due]
         /\ UNCHANGED <<mstate, run>>
    ELSE /\ timers' = pending
         /\ mstate' = TargetOf(cands[sel], mstate)
         /\ run' = StepActions(Machine, mstate, cands[sel])
         /\ actor' = [actor EXCEPT
                         !.from = mstate,
                         !.status = IF IsFinal(Machine, TargetOf(cands[sel], mstate))
                                    THEN "done" ELSE @,
                         !.fired = IF TargetOf(cands[sel], mstate) # mstate
                                   THEN {} ELSE @ \cup due]

\* the onMessage handler of eventType and interpreter.send, up to the point
\* where XState has selected the transition and starts to execute its actions
Send(s, eventType, message) ==
    /\ CallStackEmpty
    /\ LET payload == Forwarded(s, message)
           xevent == XEvent(eventType, payload)
           cands == Candidates(Machine, mstate, Prop(xevent, "type").s[1])
           sel == Selected(cands, xevent, Machine, Ctx)
           threw == SelectionThrows(cands, xevent, Machine, Ctx)
           taken == actor.status = "active" /\ ~threw /\ sel # 0
       IN  /\ lastEvent' = LastEventOf(eventType, payload)
           /\ cur' = [kind |-> "event", sender |-> s,
                      event |-> Obj(Spread([type |-> S(eventType)], payload.kids)),
                      hid |-> cur.hid + 1,
                      spoofed |-> cur.spoofed \/ "sessionId" \in DOMAIN Own(message),
                      from |-> mstate, sel |-> IF taken THEN sel ELSE 0,
                      msg |-> message.k, mtype |-> eventType]
           /\ Dispatch(cands, sel, threw, timers, {})
    /\ nmsgs' = nmsgs + 1
    /\ UNCHANGED <<root, conn, stopped, broadcasts, defn, generatedClasses,
                   nbuilds, probe>>

\* the onMessage handler of a client of the room
Deliver(s, eventType, message) ==
    /\ conn[s] = "joined"
    /\ Send(s, eventType, message)

\* a message of a client, within the bound on inbound messages
Receive(s, eventType, message) ==
    /\ nmsgs < MaxMsgs
    /\ Deliver(s, eventType, message)

\* a delayed event of the current state is due: the clock of the actor sends
\* it to the actor, which selects among the transitions of the after entry
FireAfter ==
    /\ CallStackEmpty
    /\ \E i \in 1..Len(timers) :
         /\ NextDue(i)
         /\ timers[i].kind = "after"
         /\ LET xevent == Obj([type |-> Str(<<"xstate.after", ".", timers[i].key>>)])
                cands == IF timers[i].state = mstate
                         THEN AfterCandidates(Machine, mstate, timers[i].key)
                         ELSE <<>>
                sel == Selected(cands, xevent, Machine, Ctx)
                threw == SelectionThrows(cands, xevent, Machine, Ctx)
                taken == actor.status = "active" /\ ~threw /\ sel # 0
            IN  /\ cur' = [kind |-> "after", sender |-> "", event |-> lastEvent,
                           hid |-> cur.hid + 1, spoofed |-> cur.spoofed,
                           from |-> mstate, sel |-> IF taken THEN sel ELSE 0,
                           msg |-> "", mtype |-> ""]
                /\ Dispatch(cands, sel, threw, WithoutTimer(timers, i), {timers[i].key})
    /\ UNCHANGED <<root, conn, lastEvent, stopped, broadcasts, nmsgs, defn,
                   generatedClasses, nbuilds, probe>>

\* the context after the next action of the running handler
AfterNext ==
    IF Head(run).k = "builtin"
    THEN [Ctx EXCEPT !.timers =
            IF Head(run).s[1] = "raise"
            THEN RaiseAfter(@, Head(run).s[2], AfterKeys(Machine, Head(run).s[2]), cur)
            ELSE CancelAfter(@, Head(run).s[2])]
    ELSE IF cur.kind # "batch"
    THEN ExecAction(Head(run), Ctx, lastEvent)
    ELSE IF IsFunction(TypeOf(Head(run)))
         THEN Call(TypeOf(Head(run)), Ctx, RestOf(Head(run)))
         ELSE Ctx

\* a callback whose loop goes on after an action has thrown
RemainingAfterError(after, list) == Tail(list)

\* the actions left to the running handler after one has run: the catch of
\* the scheduleActions callback is around the whole loop, an exception ends it
Remaining(after, list) == IF after.err THEN <<>> ELSE Tail(list)

\* the running handler executes its next action; an exception inside a
\* scheduled batch ends the batch; an exception that leaves an action of the
\* actor ends the transition: the actor keeps the state it had and stops
\* with its error status
Step ==
    /\ ~CallStackEmpty
    /\ \E after \in {AfterNext} :
         /\ root' = after.state
         /\ broadcasts' = after.bcast
         /\ IF after.fatal
            THEN /\ run' = <<>>
                 /\ timers' = WithoutAfter(after.timers)
                 /\ mstate' = actor.from
                 /\ actor' = [actor EXCEPT !.status = "error"]
            ELSE /\ run' = Remaining(after, run)
                 /\ timers' = after.timers
                 /\ UNCHANGED <<mstate, actor>>
    /\ UNCHANGED <<conn, lastEvent, stopped, cur, nmsgs, defn, generatedClasses,
                   nbuilds, probe>>

\* a setTimeout callback of scheduleActions starts
FireBatch ==
    /\ CallStackEmpty
    /\ \E i \in 1..Len(timers) :
         /\ NextDue(i)
         /\ timers[i].kind = "batch"
         /\ run' = timers[i].actions
         /\ cur' = [kind |-> "batch", sender |-> timers[i].by.sender,
                    event |-> timers[i].by.event, hid |-> cur.hid + 1,
                    spoofed |-> cur.spoofed, from |-> mstate, sel |-> 0, msg |-> "", mtype |-> ""]
         /\ timers' = WithoutTimer(timers, i)
    /\ UNCHANGED <<root, conn, lastEvent, mstate, stopped, broadcasts, nmsgs, defn,
                   generatedClasses, nbuilds, probe, actor>>

\* the smallest remaining delay among the pending timers
MinRem == CHOOSE m \in {timers[i].rem : i \in 1..Len(timers)} :
            \A i \in 1..Len(timers) : m <= timers[i].rem

\* the step of the clock under a definition: the delays of a definition are
\* multiples of it
Quantum == IF defn = "enhanced-quiz" THEN 3000 ELSE IF defn = "zero-delay" THEN 1000 ELSE 1

\* time passes: one step of the clock, or the time until the next timer is due
Tick ==
    /\ CallStackEmpty
    /\ timers # <<>>
    /\ MinRem > 0
    /\ \E d \in {MinRem} \cup {q \in {Quantum} : q < MinRem} :
          timers' = [i \in 1..Len(timers) |->
                        [timers[i] EXCEPT !.rem = @ - d, !.want = @ - d]]
    /\ UNCHANGED <<root, conn, lastEvent, mstate, stopped, run, cur, broadcasts, nmsgs,
                   defn, generatedClasses, nbuilds, probe, actor>>

DisposeRoomOnly ==
    /\ CallStackEmpty
    /\ ~stopped
    /\ connected = {}
    /\ stopped' = TRUE
    /\ UNCHANGED <<root, conn, lastEvent, mstate, run, cur, broadcasts, nmsgs,
                   defn, generatedClasses, nbuilds, probe, actor, timers>>

\* onDispose: interpreter.dispose() stops the actor.  The framework disposes
\* a room that has no client left.
Dispose ==
    /\ CallStackEmpty
    /\ ~stopped
    /\ connected = {}
    /\ stopped' = TRUE
    /\ actor' = [actor EXCEPT !.status = "stopped"]
    /\ timers' = WithoutAfter(timers)
    /\ UNCHANGED <<root, conn, lastEvent, mstate, run, cur, broadcasts, nmsgs,
                   defn, generatedClasses, nbuilds, probe>>

\* onCreate of a room with definition id: build the classes, instantiate the state
RoomCreated(id) ==
    /\ defn = id
    /\ generatedClasses = BuildClasses(Prop(Definition(id), "schema"), 1)
    /\ nbuilds = 1
    /\ root = instantiateWithDefaults(
                Prop(Definition(id), "schema"),
                ClassGet(BuildClasses(Prop(Definition(id), "schema"), 1),
                         Prop(Prop(Definition(id), "schema"), "root").s[1]).ctor)
    /\ conn = [s \in Sessions |-> "fresh"]
    /\ lastEvent = Null
    /\ mstate = Prop(Prop(Definition(id), "machine"), "initial").s[1]
    /\ stopped = FALSE
    /\ run = EntryActions(Prop(Definition(id), "machine"),
                           Prop(Prop(Definition(id), "machine"), "initial").s[1])
    /\ cur = [kind |-> "none", sender |-> "", event |-> Null, hid |-> 0, spoofed |-> FALSE,
              from |-> "", sel |-> 0, msg |-> "", mtype |-> ""]
    /\ actor = [status |-> "active",
                from |-> Prop(Prop(Definition(id), "machine"), "initial").s[1],
                fired |-> {}]
    /\ timers = <<>>
    /\ broadcasts = 0
    /\ nmsgs = 0

InitRoom(id) == RoomCreated(id) /\ probe = <<>>

Init == InitRoom("enhanced-quiz")

Next ==
    \/ \E s \in Sessions : JoinRoom(s)
    \/ \E s \in Sessions : LeaveRoom(s)
    \/ \E s \in Sessions : \E e \in AllEvents(Machine) : \E m \in Messages(e, s) :
            Receive(s, e, m)
    \/ Step
    \/ FireBatch
    \/ Tick
    \/ Dispose

Spec == Init /\ [][Next]_vars


\* the same room host with the zero-delay definition
InitZero == InitRoom("zero-delay")

SpecZero == InitZero /\ [][Next]_vars


\* the same room host with the timer-order definition
InitTimers == InitRoom("timer-order")

SpecTimers == InitTimers /\ [][Next]_vars

\* the same room host with the faulty definition
InitFaulty == InitRoom("faulty")

SpecFaulty == InitFaulty /\ [][Next]_vars

\* the room host with a definition whose states have delayed transitions
NextActor ==
    \/ Next
    \/ FireAfter

InitFlow == InitRoom("flow")

SpecFlow == InitFlow /\ [][NextActor]_vars

\* the interpreter of a disposed room is sent an event all the same
LateSend ==
    /\ stopped
    /\ nmsgs < MaxMsgs
    /\ \E s \in Sessions : \E e \in AllEvents(Machine) : Send(s, e, Obj(Empty))

NextStopped ==
    \/ NextActor
    \/ LateSend

SpecStopped == InitFlow /\ [][NextStopped]_vars

\* the room host with the stamp definition
InitStamp == InitRoom("stamp")

NextStamp ==
    \/ \E s \in Sessions : JoinRoom(s)
    \/ \E s \in Sessions : LeaveRoom(s)
    \/ \E s \in Sessions : \E e \in AllEvents(Machine) : \E m \in Messages(e, s) :
            Receive(s, e, m)
    \/ Step
    \/ FireAfter
    \/ Tick
    \/ Dispose

SpecStamp == InitStamp /\ [][NextStamp]_vars

-----------------------------------------------------------------------------
(* Rooms of one process: every onCreate calls build on the same schemaBuilder *)

\* the schemas of the definitions other rooms are created with
OtherSchemas == {MultiQuizSchema}

\* onCreate of another room in the process: schemaBuilder.build(dsl) clears
\* the singleton's generatedClasses Map and fills it with the classes of dsl
CreateOtherRoom(dsl) ==
    /\ CallStackEmpty
    /\ nbuilds < MaxBuilds
    /\ validateDSL(dsl)
    /\ generatedClasses' = BuildClasses(dsl, nbuilds + 1)
    /\ nbuilds' = nbuilds + 1
    /\ UNCHANGED <<root, conn, lastEvent, mstate, stopped, run, cur, timers, broadcasts,
                   nmsgs, defn, probe, actor>>

NextRooms ==
    \/ Next
    \/ \E dsl \in OtherSchemas : CreateOtherRoom(dsl)

SpecRooms == Init /\ [][NextRooms]_vars

-----------------------------------------------------------------------------
(* Transition selection on given candidate arrays *)

\* the conds of the guard cases: constant true, constant false, and conds
\* that read the event
CondTrue == Obj([x \in {"=="} |-> Arr(<<Num(1), Num(1)>>)])
CondFalse == Obj([x \in {"=="} |-> Arr(<<Num(1), Num(2)>>)])
CondEventValue == Obj([var |-> Str(<<"event", ".", "value">>)])
CondPayloadValue == Obj([var |-> Str(<<"event", ".", "payload", ".", "value">>)])

GuardConds == {CondTrue, CondFalse, CondEventValue, CondPayloadValue}

\* candidate transitions: with or without a cond, with or without actions
GuardTransitions ==
    {Obj([target |-> S("next")]),
     Obj([target |-> S("next"), actions |-> Arr(<<Obj([type |-> S("log")])>>)])}
    \cup {Obj([target |-> S("next"), cond |-> c]) : c \in GuardConds}
    \cup {Obj([target |-> S("next"), cond |-> c,
               actions |-> Arr(<<Obj([type |-> S("log")])>>)]) : c \in GuardConds}

GuardArrays ==
    UNION {[1..n -> GuardTransitions] : n \in 1..MaxCands}

\* the messages of the guard cases
GuardMessages == {Obj([value |-> S("yes")]), Obj([value |-> Num(0)]), Obj(Empty)}

\* the event XState is sent for the message of a guard case
ProbeEvent(p) == XEvent("pick", Forwarded(p.sender, p.message))

\* what a guard with cond c returns on the event of a guard case
GuardSees(p, c) == GuardResult(Obj([cond |-> c]), ProbeEvent(p), Machine, Ctx)

InitGuard ==
    /\ RoomCreated("enhanced-quiz")
    /\ probe \in [cands : GuardArrays, sender : Sessions, message : GuardMessages,
                  done : {FALSE}, sel : {0}, value : {Undef}, sessionId : {Undef}]

\* XState selects among the candidates; the guards see the event
Select ==
    /\ ~probe.done
    /\ probe' = [probe EXCEPT
                    !.done = TRUE,
                    !.sel = Selected([i \in 1..Len(probe.cands) |->
                                         NormalTransition(probe.cands[i])],
                                     ProbeEvent(probe), Machine, Ctx),
                    !.value = GuardSees(probe, CondEventValue),
                    !.sessionId = GuardSees(probe, Obj([var |->
                                        Str(<<"event", ".", "sessionId">>)]))]
    /\ UNCHANGED <<root, conn, lastEvent, mstate, stopped, run, cur, timers, broadcasts,
                   nmsgs, defn, generatedClasses, nbuilds, actor>>

NextGuard == Select

SpecGuard == InitGuard /\ [][NextGuard]_vars

-----------------------------------------------------------------------------
(* Creation of a room from a definition passed in options.definition *)

\* validateDefinition does not throw
ValidateDefinitionIdOnly(definition) == Truthy(Prop(definition, "id"))

validateDefinition(definition) ==
    /\ Truthy(Prop(definition, "id"))
    /\ Truthy(Prop(definition, "schema"))
    /\ Truthy(Prop(definition, "machine"))
    /\ Truthy(Prop(Prop(definition, "schema"), "root"))
    /\ Truthy(Prop(Prop(definition, "schema"), "classes"))
    /\ Truthy(Prop(Prop(definition, "machine"), "initial"))
    /\ Truthy(Prop(Prop(definition, "machine"), "states"))
    /\ HasClass(Prop(Prop(definition, "schema"), "classes"),
                Prop(Prop(definition, "schema"), "root").s[1])

\* record v with key bound to w, and without key
With(v, key, w) == [v EXCEPT !.kids = Put(v.kids, key, w)]
Without(v, key) == [v EXCEPT !.kids = Drop(v.kids, key)]

\* definition d with the root class given one more field
WithRootField(d, fieldDef) ==
    LET schema == Prop(d, "schema")
        classes == Prop(schema, "classes")
        rootName == Prop(schema, "root").s[1]
    IN  With(d, "schema",
             With(schema, "classes",
                  With(classes, rootName, With(Prop(classes, rootName), "extra", fieldDef))))

\* the field definitions the creation cases add to the root class
ExtraFields ==
    {Obj([x \in {kind} |-> S(name)]) :
        kind \in {"ref", "map", "array"},
        name \in {"Missing", "toString", "Player", "string"}}

\* the definitions rooms are created with: the complete ones, and each with a
\* required part taken away, a root that is no class, or one more field
Variants(d) ==
    {d, Without(d, "id"), With(d, "id", Str(<<>>)), Without(d, "schema"), Without(d, "machine"),
     With(d, "schema", Without(Prop(d, "schema"), "root")),
     With(d, "schema", Without(Prop(d, "schema"), "classes")),
     With(d, "machine", Without(Prop(d, "machine"), "initial")),
     With(d, "machine", Without(Prop(d, "machine"), "states")),
     With(d, "schema", With(Prop(d, "schema"), "root", S("Missing"))),
     With(d, "schema", With(Prop(d, "schema"), "root", S("constructor")))}
    \cup {WithRootField(d, fd) : fd \in ExtraFields}

CreationDefinitions ==
    UNION {Variants(Definition(id)) :
              id \in {"enhanced-quiz", "zero-delay", "timer-order", "flow", "faulty"}}

InitCreate ==
    /\ RoomCreated("flow")
    /\ probe \in [definition : CreationDefinitions, done : {FALSE}, failed : {FALSE},
                  interpreter : {FALSE}, handlers : {{}}]

\* onCreate of a room in the process: validate the definition, build its
\* schema, create the interpreter, register one handler per event.  Whatever
\* throws is rethrown; what was assigned before stays.
OnCreate ==
    /\ ~probe.done
    /\ nbuilds < MaxBuilds
    /\ LET definition == probe.definition
           valid == validateDefinition(definition)
           cleared == valid /\ validateDSL(Prop(definition, "schema"))
           built == valid /\ build(Prop(definition, "schema"))
       IN  /\ probe' = [probe EXCEPT
                           !.done = TRUE,
                           !.failed = ~built,
                           !.interpreter = built,
                           !.handlers = IF built THEN AllEvents(Prop(definition, "machine"))
                                        ELSE {}]
           /\ generatedClasses' =
                 IF cleared THEN BuildClasses(Prop(definition, "schema"), nbuilds + 1)
                 ELSE generatedClasses
           /\ nbuilds' = IF cleared THEN nbuilds + 1 ELSE nbuilds
    /\ UNCHANGED <<root, conn, lastEvent, mstate, stopped, run, cur, timers, broadcasts,
                   nmsgs, defn, actor>>

NextCreate == OnCreate

SpecCreate == InitCreate /\ [][NextCreate]_vars

-----------------------------------------------------------------------------
(* The catalogue's actions applied to given states of the enhanced quiz *)

\* the context of the room with `state` as its replicated state
LawCtx(state) == [Ctx EXCEPT !.state = state]

\* "a.b.c" for the segments <<"a", "b", "c">>
RECURSIVE Dotted(_)
Dotted(parts) ==
    IF Len(parts) = 1 THEN <<parts[1]>>
    ELSE <<Head(parts), ".">> \o Dotted(Tail(parts))

PathOf(parts) == Str(Dotted(parts))

\* a call of an action of the catalogue with resolved params
Direct(actionType, fields) ==
    [via |-> "call", type |-> actionType, params |-> Obj(fields), last |-> Null]

\* an action of a transition as the interpreter runs it on the event `last`
Wrapped(action, last) ==
    [via |-> "xstate", type |-> TypeOf(action), params |-> action, last |-> last]

\* the state after the call
\* a join of a client with a session id and a name option
Join(sessionId, name) ==
    [via |-> "join", type |-> "onJoin",
     params |-> Obj([sessionId |-> S(sessionId), name |-> S(name)]), last |-> Null]

Apply(state, call) ==
    IF call.via = "xstate"
    THEN ExecAction(call.params, LawCtx(state), call.last).state
    ELSE IF call.via = "join"
    THEN onJoin(state, Prop(call.params, "sessionId").s[1], Prop(call.params, "name"))
    ELSE Call(call.type, LawCtx(state), call.params).state

\* the states the calls start from: the new room, the room after A joined,
\* after A's start, and after a setState on A's score
ScoreValues == {Num(5), S("abc"), Str(<<>>), Bool(TRUE), Bool(FALSE), Null}

Joined(r) == onJoin(r, "A", S("Player"))

Started(r) ==
    Apply(Apply(Joined(r),
                Direct("setState", [path |-> PathOf(<<"players", "A", "questionIndex">>),
                                    value |-> Num(0)])),
          Direct("createInstanceFromArray",
                 [className |-> S("Question"),
                  statePath |-> PathOf(<<"players", "A", "currentQuestion">>),
                  arrayPath |-> S("questions"), index |-> Num(0)]))

LawStates(r) ==
    {r, Joined(r), Started(r)}
    \cup {Apply(Started(r), Direct("setState", [path |-> PathOf(<<"players", "A", "score">>),
                                                value |-> v])) : v \in ScoreValues}

LawPaths ==
    {PathOf(p) : p \in {<<"players", "A", "score">>, <<"players", "A", "bonus">>,
                        <<"players", "A", "currentQuestion">>, <<"players", "C">>,
                        <<"players", "A", "score", "x">>, <<"total">>,
                        <<"players", "A", "name", "x", "y">>}}

\* pairs of calls: the same ensureInstanceAtPath twice, the same setState
\* twice, increment by n and by -n, incrementIfEqual, and the scoring action of
\* the quiz's answer transition on an answer event of A
EnsurePairs ==
    {<<c, c>> : c \in
        {Direct("ensureInstanceAtPath", [className |-> S(cn), statePath |-> sp]) :
            cn \in {"Question", "Player", "Nope"}, sp \in LawPaths}
        \cup {Direct("ensureInstanceAtPath",
                     [className |-> S(cn), statePath |-> sp, data |-> Obj([text |-> S("hi")])]) :
                cn \in {"Question", "Player", "Nope"}, sp \in LawPaths}}

SetStatePairs ==
    {<<c, c>> : c \in
        {Direct("setState", [path |-> sp, value |-> v]) :
            sp \in LawPaths,
            v \in {Num(3), S("x"), Bool(FALSE), Null, Obj([a |-> Num(1)]), Arr(<<Num(1)>>)}}}

IncrementPairs ==
    {<<Direct("increment", [path |-> sp, delta |-> Num(n)]),
       Direct("increment", [path |-> sp, delta |-> Num(0 - n)])>> :
        sp \in LawPaths, n \in {1, 2, -3}}

IfEqualPairs ==
    {<<c, c>> : c \in
        {Direct("incrementIfEqual", [path |-> sp, equalsPath |-> ep, value |-> v]) :
            sp \in {PathOf(<<"players", "A", "score">>), PathOf(<<"players", "A", "bonus">>),
                    PathOf(<<"total">>)},
            ep \in {PathOf(<<"players", "A", "currentQuestion", "correctAnswer">>),
                    PathOf(<<"players", "A", "questionIndex">>),
                    PathOf(<<"players", "A", "missing">>)},
            v \in {S("2"), Num(2), Num(0), S("false"), S("undefined")}}
        \cup {Direct("incrementIfEqual",
                     [path |-> sp, equalsPath |-> ep, value |-> v, delta |-> Num(d)]) :
                sp \in {PathOf(<<"players", "A", "score">>), PathOf(<<"total">>)},
                ep \in {PathOf(<<"players", "A", "currentQuestion", "correctAnswer">>),
                        PathOf(<<"players", "A", "missing">>)},
                v \in {S("2"), Num(2), S("false")},
                d \in {1, 2, -1}}}

\* the incrementIfEqual action of the quiz's answer transition
ScoringAction ==
    LET actions == Prop(Prop(Prop(Prop(Prop(Prop(EnhancedQuiz, "machine"), "states"),
                                       "waiting"), "on"), "answer"), "actions")
    IN  CHOOSE a \in {actions.kids[i] : i \in 1..actions.n} : TypeOf(a) = "incrementIfEqual"

AnswerPairs ==
    {<<c, c>> : c \in
        {Wrapped(ScoringAction, LastEventOf("answer", Forwarded("A", Obj([value |-> v])))) :
            v \in {S("2"), Num(2), S("1"), S("false")}}}

\* the same join twice
JoinPairs == {<<c, c>> : c \in {Join(s, n) : s \in {"A", "B"}, n \in {"Player", "Other"}}}

LawPairs ==
    EnsurePairs \cup SetStatePairs \cup IncrementPairs \cup IfEqualPairs \cup AnswerPairs
    \cup JoinPairs

InitLaws ==
    /\ RoomCreated("enhanced-quiz")
    /\ probe \in {[state |-> s, first |-> p[1], second |-> p[2], stage |-> 0,
                   mid |-> s, end |-> s] : s \in LawStates(root), p \in LawPairs}

\* the first call of the pair runs
ApplyFirst ==
    /\ probe.stage = 0
    /\ probe' = [probe EXCEPT !.stage = 1, !.mid = Apply(probe.state, probe.first),
                              !.end = Apply(probe.state, probe.first)]
    /\ UNCHANGED <<root, conn, lastEvent, mstate, stopped, run, cur, timers, broadcasts,
                   nmsgs, defn, generatedClasses, nbuilds, actor>>

\* the second call of the pair runs
ApplySecond ==
    /\ probe.stage = 1
    /\ probe' = [probe EXCEPT !.stage = 2, !.end = Apply(probe.mid, probe.second)]
    /\ UNCHANGED <<root, conn, lastEvent, mstate, stopped, run, cur, timers, broadcasts,
                   nmsgs, defn, generatedClasses, nbuilds, actor>>

NextLaws == ApplyFirst \/ ApplySecond

SpecLaws == InitLaws /\ [][NextLaws]_vars

-----------------------------------------------------------------------------
(* A write through a path followed by a read through the same path *)

\* the paths of the calls: fields of a player, a player whose key is missing
\* in the keyed collection, missing records on the way, segments below a
\* number and below a string, empty segments, and the empty path
RoundTripPaths ==
    {PathOf(p) : p \in {<<"players", "A", "score">>, <<"players", "A", "bonus">>,
                        <<"players", "C", "score">>, <<"players", "C", "box", "lid">>,
                        <<"total">>, <<"extra", "deep", "leaf">>,
                        <<"players", "A", "score", "x">>,
                        <<"players", "A", "name", "x", "y">>}}
    \cup {Str(<<"players", ".", ".", "A", ".", "score">>), Str(<<".", "total", ".">>),
          Str(<<".">>), Str(<<>>)}

RoundTripValues == {Num(3), S("x"), Bool(FALSE), Obj([a |-> Num(1)])}

InitPath ==
    /\ RoomCreated("enhanced-quiz")
    /\ probe \in {[state |-> s, path |-> p, value |-> v, stage |-> 0,
                   ok |-> TRUE, after |-> s, got |-> Undef] :
                     s \in LawStates(root), p \in RoundTripPaths, v \in RoundTripValues}

\* setByPath(state, path, value) runs
SetPath ==
    /\ probe.stage = 0
    /\ probe' = [probe EXCEPT !.stage = 1,
                              !.ok = setByPath(probe.state, probe.path, probe.value).ok,
                              !.after = setByPath(probe.state, probe.path, probe.value).v]
    /\ UNCHANGED <<root, conn, lastEvent, mstate, stopped, run, cur, timers, broadcasts,
                   nmsgs, defn, generatedClasses, nbuilds, actor>>

\* getByPath(state, path) runs on the state the write left
GetPath ==
    /\ probe.stage = 1
    /\ probe' = [probe EXCEPT !.stage = 2, !.got = getByPath(probe.after, probe.path)]
    /\ UNCHANGED <<root, conn, lastEvent, mstate, stopped, run, cur, timers, broadcasts,
                   nmsgs, defn, generatedClasses, nbuilds, actor>>

NextPath == SetPath \/ GetPath

SpecPath == InitPath /\ [][NextPath]_vars

-----------------------------------------------------------------------------
(* A player of the enhanced quiz who sends start and then one answer per    *)
(* question                                                                 *)

\* the phase of A in the replicated state
PhaseOfA == getByPath(root, PathOf(<<"players", "A", "phase">>))

\* the answers A gives
Answers == {Obj([value |-> S("2")]), Obj([value |-> S("false")]), Obj([value |-> S("true")])}

\* A sends start as the first message
PlayStart ==
    /\ nmsgs = 0
    /\ Deliver("A", "start", Obj(Empty))

\* A answers the question shown
PlayAnswer ==
    /\ nmsgs >= 1
    /\ PhaseOfA = S("question")
    /\ \E m \in Answers : Deliver("A", "answer", m)

NextPlay ==
    \/ \E s \in Sessions : JoinRoom(s)
    \/ PlayStart
    \/ PlayAnswer
    \/ Step
    \/ FireBatch
    \/ Tick

SpecPlay == Init /\ [][NextPlay]_vars

\* messages of a player who sends start and answers at any time, also while
\* the advance of an earlier answer is pending
MaxRapid == 6

RapidSend ==
    /\ nmsgs < MaxRapid
    /\ \/ Deliver("A", "start", Obj(Empty))
       \/ Deliver("A", "answer", Obj([value |-> S("2")]))

NextRapid ==
    \/ JoinRoom("A")
    \/ RapidSend
    \/ Step
    \/ FireBatch
    \/ Tick

SpecRapid == Init /\ [][NextRapid]_vars

-----------------------------------------------------------------------------
(* Properties of the room host *)

\* the players map of a root state, as a property table
PlayersOf(state) == Prop(state, "players").kids

\* C1: while the handler of an inbound message runs, the sessionId of the
\* event the actions render their placeholders against is the session id of
\* the client that sent the message, whatever the message holds.
C1_SessionIdIsSender ==
    cur.kind = "event" => Prop(lastEvent, "sessionId") = S(cur.sender)

\* C2: the keys of players are exactly the session ids of the connected clients.
C2_PlayersAreConnected == DOMAIN PlayersOf(root) = connected

\* C2 for clients that never send a sessionId of their own, between handlers
C2_PlayersAreConnectedHonest ==
    (CallStackEmpty /\ ~cur.spoofed) => DOMAIN PlayersOf(root) = connected

\* C3: once the room is disposed, no step changes the root state or
\* broadcasts: no scheduled batch executes after disposal.
C3_NoBatchAfterDispose ==
    [][stopped => (root' = root /\ broadcasts' = broadcasts /\ run' = <<>>)]_vars

\* the root states r1 and r2 differ at most in the players entry of session s
SameExceptPlayer(r1, r2, s) ==
    /\ r1.k = r2.k /\ r1.cls = r2.cls
    /\ Drop(r1.kids, "players") = Drop(r2.kids, "players")
    /\ DOMAIN PlayersOf(r1) \ {s} = DOMAIN PlayersOf(r2) \ {s}
    /\ \A o \in DOMAIN PlayersOf(r1) \ {s} : PlayersOf(r1)[o] = PlayersOf(r2)[o]

\* C7: with both sessions connected, an action of the handler of a message
\* from session s, or of a batch that message scheduled, changes nothing
\* outside players[s].
C7_PlayerIsolation ==
    [][(run # <<>> /\ connected = Sessions) => SameExceptPlayer(root, root', cur.sender)]_vars

\* C7 for clients that never send a sessionId of their own
C7_PlayerIsolationHonest ==
    [][(run # <<>> /\ connected = Sessions /\ ~cur.spoofed)
        => SameExceptPlayer(root, root', cur.sender)]_vars

\* every string inside a value
RECURSIVE Strings(_)
Strings(v) ==
    CASE v.k = "str" -> {v.s}
      [] v.k = "arr" -> UNION {Strings(v.kids[i]) : i \in 1..Len(v.kids)}
      [] v.k \in {"obj", "inst", "map"} -> UNION {Strings(v.kids[f]) : f \in DOMAIN v.kids}
      [] OTHER -> {}

\* the strings of a batch that address a player
PlayerStrings(actions) ==
    {s \in UNION {Strings(actions[i]) : i \in 1..Len(actions)} :
        \/ Len(s) >= 3 /\ s[1] = "players"
        \/ Len(s) >= 5 /\ s[1] = "state" /\ s[3] = "players"}

\* no placeholder is left in the batch, and each of its player paths names
\* the sessionId of event ev
BoundTo(actions, ev) ==
    LET sid == ToStr(Prop(ev, "sessionId"))
    IN  /\ \A s \in UNION {Strings(actions[i]) : i \in 1..Len(actions)} :
              \A j \in 1..Len(s) : s[j] \notin DOMAIN TokenOpen
        /\ \A s \in PlayerStrings(actions) :
              IF s[1] = "players" THEN SubSeq(s, 3, 2 + Len(sid)) = sid
              ELSE SubSeq(s, 5, 4 + Len(sid)) = sid

\* C8: the placeholders of a scheduled batch are resolved against the event
\* that scheduled it: a pending batch, and a batch that is running, address
\* the player of that event, whichever events were handled in between.
C8_BatchBoundToSchedulingEvent ==
    /\ \A i \in 1..Len(timers) : BoundTo(timers[i].actions, timers[i].by.event)
    /\ (cur.kind = "batch" => BoundTo(run, cur.event))

\* a batch runs its player paths after an event of the other session was
\* handled, no message having carried a sessionId of its own
C8_Witness ==
    /\ cur.kind = "batch"
    /\ ~cur.spoofed
    /\ PlayerStrings(run) # {}
    /\ ~IsNullish(Prop(lastEvent, "sessionId"))
    /\ Prop(lastEvent, "sessionId") # Prop(cur.event, "sessionId")

RootNum(field) == Prop(root, field).n

\* C10: a batch scheduled with delayMs 0 runs after the remaining actions of
\* the transition that scheduled it and after the entry actions of the state
\* entered: it has never run more often than those.
C10_ZeroDelayRunsAfter ==
    defn = "zero-delay" =>
        /\ RootNum("batches") <= RootNum("done")
        /\ RootNum("batches") <= RootNum("entered")

\* a batch with delayMs 0 has run
C10_Witness == defn = "zero-delay" /\ RootNum("batches") >= 1


\* C4: creating another room never changes the classes, or the constructors
\* bound to the class names, of the table this room uses for its instances.
C4_ClassTableNotShared == [][RoomClasses' = RoomClasses]_vars

\* the cond of candidate t holds: jsonLogic.apply(cond, view) on the view the
\* guards are given
CondHolds(p, t) == Truthy(GuardSees(p, Prop(t, "cond")))

\* candidate t may be taken: it has no cond, or its cond holds
MayTake(p, t) == IsNullish(Prop(t, "cond")) \/ CondHolds(p, t)

\* C5: the selected transition is the first in array order that has no cond
\* or whose cond is truthy; a transition with a falsy cond is never selected,
\* with or without actions; none is selected when none may be taken.
C5_FirstTruthyCond ==
    probe # <<>> /\ probe.done =>
        /\ probe.sel # 0 =>
              /\ MayTake(probe, probe.cands[probe.sel])
              /\ \A h \in 1..(probe.sel - 1) : ~MayTake(probe, probe.cands[h])
        /\ probe.sel = 0 => \A h \in 1..Len(probe.cands) : ~MayTake(probe, probe.cands[h])

\* C6: in a guard, var event.f yields the value the client sent for payload
\* field f, and var event.sessionId yields the sender's session id.
C6_GuardSeesInboundEvent ==
    probe # <<>> /\ probe.done =>
        /\ "value" \in DOMAIN probe.message.kids =>
              probe.value = probe.message.kids["value"]
        /\ probe.sessionId = S(probe.sender)

\* the batch timer i of the pending timers is the one a step runs
Runs(i) ==
    /\ i \in 1..Len(timers)
    /\ timers[i].kind = "batch"
    /\ timers' = WithoutTimer(timers, i)
    /\ run' = timers[i].actions

\* C11: the batch a timer callback starts is, among the pending batches, one
\* with the smallest fire-at time (the time of its scheduleActions call plus
\* delayMs), and among those with that fire-at time the one scheduled first.
C11_BatchesInFireAtOrder ==
    [][(cur'.kind = "batch" /\ cur'.hid # cur.hid) =>
         \E i \in 1..Len(timers) :
            /\ Runs(i)
            /\ \A h \in 1..Len(timers) :
                  (h # i /\ timers[h].kind = "batch") =>
                     \/ timers[i].want < timers[h].want
                     \/ timers[i].want = timers[h].want /\ i < h]_vars

-----------------------------------------------------------------------------
(* Properties of the flow definition *)

\* the letters the actions have appended to the trace field
Trace == IF Prop(root, "trace").k = "str" THEN Prop(root, "trace").s ELSE <<>>

\* the letters of a trace after the last occurrence of a letter
Since(trace, letter) ==
    IF \E i \in 1..Len(trace) : trace[i] = letter
    THEN LET last == CHOOSE i \in 1..Len(trace) :
                        trace[i] = letter /\ \A h \in (i + 1)..Len(trace) : trace[h] # letter
         IN  SubSeq(trace, last + 1, Len(trace))
    ELSE trace

Count(trace, letter) == Cardinality({i \in 1..Len(trace) : trace[i] = letter})

\* the pending delayed events of a state
PendingAfter(state) ==
    Cardinality({i \in 1..Len(timers) : timers[i].kind = "after" /\ timers[i].state = state})

\* C12: between two events of a running machine, the only delayed events on
\* the clock are those of the current state, none older than its delay; in
\* review, whose delayed transition keeps the state, the transition is armed
\* and has not run since the state was entered, or is off the clock and has
\* run exactly once; in round, whose delayed transition leaves the state, it
\* is armed and has not run since the state was entered.
C12_AfterFiresOnce ==
    (CallStackEmpty /\ actor.status = "active") =>
       /\ \A i \in 1..Len(timers) :
             timers[i].kind = "after" =>
                timers[i].state = mstate /\ timers[i].rem <= AfterDelay(timers[i].key)
       /\ mstate = "review" =>
             PendingAfter("review") + Count(Since(Trace, "V"), "b") = 1
       /\ mstate = "round" =>
             PendingAfter("round") = 1 /\ Count(Since(Trace, "R"), "a") = 0
       /\ mstate = "lobby" => PendingAfter("lobby") = 0

\* round was left by an answer before its 2 ms had passed and its delayed
\* transition never ran, although the batch the answer scheduled for 2 ms
\* later has run; the delayed transition of review has run
C12_Witness ==
    /\ CallStackEmpty
    /\ mstate = "review"
    /\ Count(Trace, "a") = 0
    /\ Count(Trace, "b") = 1
    /\ Prop(root, "late") = Num(1)

\* the state whose entry action appends a letter, the letter the exit action
\* of a state appends, and the letters of the transitions that keep a state
EnteredBy(letter) ==
    CASE letter = "R" -> "round" [] letter = "V" -> "review" [] letter = "F" -> "finished"
      [] OTHER -> ""
ExitLetter(state) ==
    CASE state = "lobby" -> "l" [] state = "round" -> "r" [] state = "review" -> "v"
      [] OTHER -> ""
Keeping(state) ==
    CASE state = "lobby" -> {"i"} [] state = "round" -> {"i", "s"} [] state = "review" -> {"b"}
      [] OTHER -> {}

\* the state a trace leads to from a state when it is made of transitions
\* that keep the state (one letter) and of changes of state (the exit letter
\* of the state left, at most one transition letter, the entry letter of
\* another state), "" when it is not
RECURSIVE LeadsTo(_, _)
LeadsTo(trace, state) ==
    IF trace = <<>> THEN state
    ELSE IF Head(trace) \in Keeping(state) THEN LeadsTo(Tail(trace), state)
    ELSE IF Head(trace) # ExitLetter(state) \/ Len(trace) < 2 THEN ""
    ELSE LET moved == trace[2] \in {"t", "a"}
             at == IF moved THEN 3 ELSE 2
         IN  IF Len(trace) < at \/ EnteredBy(trace[at]) \in {"", state} THEN ""
             ELSE LeadsTo(SubSeq(trace, at + 1, Len(trace)), EnteredBy(trace[at]))

\* C13: between two events, the letters the actions have written are a
\* sequence of transitions that keep the state, which write their own letter
\* only, and of changes of state, which write the exit letter of the state
\* left, then the transition's letter, then the entry letter of the state
\* entered; the sequence leads from the initial state to the current state.
C13_ExitTransitionEntry ==
    CallStackEmpty =>
       IF Trace = <<>> THEN mstate = "lobby"
       ELSE Head(Trace) = "0" /\ LeadsTo(Tail(Trace), "lobby") = mstate

\* round was entered by start, kept by a ping, then left for review
C13_Witness ==
    /\ CallStackEmpty
    /\ mstate = "review"
    /\ Trace = <<"0", "l", "t", "R", "i", "r", "a", "V">>

\* the event types the on map of a state handles
OnKeys(state) ==
    LET on == Prop(Prop(Prop(Machine, "states"), state), "on")
    IN  IF on.k = "obj" THEN DOMAIN on.kids ELSE {}

\* C14: when the room receives a message whose type is not a key of the on
\* map of the current state, the current state and the root state stay as
\* they are, no action runs, no timer is set and nothing is broadcast.
C14_UnhandledEventIgnored ==
    [][(nmsgs' # nmsgs /\ cur'.mtype \notin OnKeys(mstate)) =>
          /\ mstate' = mstate
          /\ root' = root
          /\ run' = <<>>
          /\ timers' = timers
          /\ broadcasts' = broadcasts]_vars

\* a running machine in round has just received a finish, which round does
\* not handle
C14_Witness ==
    /\ cur.kind = "event"
    /\ actor.status = "active"
    /\ cur.from = "round"
    /\ cur.mtype = "finish"
    /\ mstate = "round"

\* C15: when the room receives a message while the machine is in a final
\* state, the message is dropped (state, root state and running actions stay
\* as they are) unless the on map of the final state has a handler for its
\* type, and then the machine moves to the target of that handler.
C15_FinalStateHandlers ==
    [][(nmsgs' # nmsgs /\ IsFinal(Machine, mstate)) =>
          LET eventType == Prop(cur'.event, "type").s[1]
          IN  IF eventType \in OnKeys(mstate)
              THEN mstate' = TargetOf(Candidates(Machine, mstate, eventType)[1], mstate)
              ELSE mstate' = mstate /\ root' = root /\ run' = <<>>]_vars

\* C16: the current state of the interpreter is a key of the states map of
\* the machine.
C16_CurrentStateIsDeclared ==
    mstate \in DOMAIN Prop(Machine, "states").kids

\* the machine has taken a transition with a target and then one without
C16_Witness ==
    /\ CallStackEmpty
    /\ mstate = "round"
    /\ Trace = <<"0", "l", "t", "R", "i">>

\* C17: the root state of the room is, for the life of the room, the
\* instance of the root class that onCreate made: the actions write into it
\* and the room replicates it.
C17_RootInstanceKept ==
    /\ root.k = "inst"
    /\ root.cls = Prop(Prop(Definition(defn), "schema"), "root").s[1]
    /\ root.n = 1

\* a scheduled batch has written to the root state after the handler of a
\* message did
C17_Witness ==
    /\ CallStackEmpty
    /\ cur.kind = "batch"
    /\ root # instantiateWithDefaults(
                 Prop(Definition(defn), "schema"),
                 ClassGet(BuildClasses(Prop(Definition(defn), "schema"), 1),
                          Prop(Prop(Definition(defn), "schema"), "root").s[1]).ctor)
    /\ PlayersOf(root) # Empty

-----------------------------------------------------------------------------
(* Properties of the faulty definition *)

\* the first candidate whose guard neither throws nor returns a falsy value,
\* 0 when there is none
FirstPassing(cands, xevent) ==
    LET passes(i) == /\ ~GuardThrows(cands[i], xevent, Machine, Ctx)
                     /\ Enabled(cands[i], xevent, Machine, Ctx)
    IN  IF \E i \in 1..Len(cands) : passes(i)
        THEN CHOOSE i \in 1..Len(cands) : passes(i) /\ \A h \in 1..(i - 1) : ~passes(h)
        ELSE 0

\* C18: a guard that throws counts as false: when a running machine receives
\* an event, it takes the first candidate whose guard does not throw and is
\* truthy (none: it keeps its state), and it goes on running.
C18_ThrowingGuardIsFalse ==
    [][(nmsgs' # nmsgs /\ actor.status = "active") =>
          LET eventType == Prop(cur'.event, "type").s[1]
              xevent == XEvent(eventType, Obj(Drop(cur'.event.kids, "type")))
              cands == Candidates(Machine, mstate, eventType)
              first == FirstPassing(cands, xevent)
          IN  /\ actor'.status = "active"
              /\ mstate' = IF first = 0 THEN mstate ELSE TargetOf(cands[first], mstate)]_vars

\* the trace ends with the letters
EndsWith(trace, letters) ==
    /\ Len(trace) >= Len(letters)
    /\ SubSeq(trace, Len(trace) - Len(letters) + 1, Len(trace)) = letters

\* the handler of a message of a type has run to its end in a running machine
Handled(eventType) ==
    /\ CallStackEmpty
    /\ cur.kind = "event"
    /\ cur.sel # 0
    /\ actor.status = "active"
    /\ Prop(cur.event, "type") = S(eventType)

\* C19: an action whose name is not in the catalogue is skipped and the
\* other actions of its list run, in order: after skip the trace ends with
\* the letter of the action behind the unknown one and the entry letter,
\* after branch with the letters of the two known actions of the when
\* branch, and a batch that has run has counted in late and in later.
C19_UnknownActionSkipped ==
    /\ Handled("skip") => EndsWith(Trace, <<"u", "H">>)
    /\ Handled("branch") => EndsWith(Trace, <<"n", "w">>)
    /\ (CallStackEmpty /\ cur.kind = "batch") =>
          RootNum("late") >= 1 /\ RootNum("later") = RootNum("late")

\* the handler of a message of a type, which selected a transition, has ended
Ended(eventType) ==
    /\ CallStackEmpty
    /\ cur.kind = "event"
    /\ cur.sel # 0
    /\ Prop(cur.event, "type") = S(eventType)

\* C20: an action of a transition that fails is the only one skipped: after
\* broken (a setState below a number) and after unclosed (a setState whose
\* value cannot be rendered) the action behind it and the entry action of
\* the target have run, the machine is in the target, and it goes on running.
C20_FailingActionSkipped ==
    /\ Ended("broken") =>
          mstate = "hit" /\ EndsWith(Trace, <<"p", "H">>) /\ actor.status # "error"
    /\ Ended("unclosed") =>
          mstate = "hit" /\ EndsWith(Trace, <<"q", "H">>) /\ actor.status # "error"

\* C21: an action that throws inside a scheduled batch ends the batch and
\* nothing else: the action behind the throwing one never counts in later,
\* and no step of a batch changes the actor or its current state.
C21_BatchErrorAbandonsBatch ==
    /\ [](RootNum("later") = 0)
    /\ [][(cur.kind = "batch" /\ run # <<>>) => (actor' = actor /\ mstate' = mstate)]_vars

\* a batch has run up to its throwing action, and after it the room has
\* handled a message
C21_Witness ==
    /\ RootNum("late") = 1
    /\ RootNum("later") = 0
    /\ Handled("skip")

\* C22: a message that is not a record (a string, a number, an array) is
\* dropped: the interpreter is sent no event, so its last event, the current
\* state and the root state stay as they are and no action runs.
C22_NonRecordMessageDropped ==
    [][(nmsgs' # nmsgs /\ cur'.msg # "obj") =>
          /\ lastEvent' = lastEvent
          /\ mstate' = mstate
          /\ root' = root
          /\ run' = <<>>]_vars

\* the class names of a definition's schema, when it has classes
Declared(d) ==
    IF Truthy(Prop(Prop(d, "schema"), "classes"))
    THEN DOMAIN Prop(Prop(d, "schema"), "classes").kids ELSE {}

\* a ref, map or array field of the definition names a class that is neither
\* declared nor a primitive
DanglingField(d) ==
    \E c \in Declared(d) :
        LET classDef == Prop(Prop(d, "schema"), "classes").kids[c]
        IN  \E f \in DOMAIN classDef.kids : \E kind \in {"ref", "map", "array"} :
               /\ kind \in DOMAIN classDef.kids[f].kids
               /\ classDef.kids[f].kids[kind].s[1] \notin Declared(d) \cup PrimitiveTypes

\* the definition lacks a required part, or its root or a field names no class
Defective(d) ==
    \/ "id" \notin DOMAIN d.kids
    \/ "schema" \notin DOMAIN d.kids
    \/ "machine" \notin DOMAIN d.kids
    \/ "root" \notin DOMAIN Prop(d, "schema").kids
    \/ "classes" \notin DOMAIN Prop(d, "schema").kids
    \/ "initial" \notin DOMAIN Prop(d, "machine").kids
    \/ "states" \notin DOMAIN Prop(d, "machine").kids
    \/ Prop(Prop(d, "schema"), "root").s[1] \notin Declared(d)
    \/ DanglingField(d)

\* C23: creating a room from a definition that lacks id, schema.root,
\* schema.classes, machine.initial or machine.states, whose root is not a
\* declared class, or in which a ref, map or array field names an undeclared
\* class that is no primitive, fails, and the room is left without an
\* interpreter and without message handlers.
C23_DefectiveDefinitionFails ==
    (probe.done /\ Defective(probe.definition)) =>
        /\ probe.failed
        /\ ~probe.interpreter
        /\ probe.handlers = {}

C23_Witness ==
    /\ probe.done
    /\ probe.failed
    /\ DanglingField(probe.definition)
    /\ validateDSL(Prop(probe.definition, "schema"))

\* the classes the room's definition declares
DeclaredClasses == Prop(Prop(Definition(defn), "schema"), "classes").kids

\* every instance of a declared class inside v holds declared fields only
RECURSIVE OnlyDeclaredFields(_)
OnlyDeclaredFields(v) ==
    /\ (v.k = "inst" /\ v.cls \in DOMAIN DeclaredClasses) =>
            DOMAIN v.kids \subseteq DOMAIN DeclaredClasses[v.cls].kids
    /\ \A x \in DOMAIN v.kids : OnlyDeclaredFields(v.kids[x])

\* C24: whatever actions have run, every instance of a generated class in the
\* replicated state holds only the fields schema.classes declares for its
\* class.
C24_OnlyDeclaredFields == OnlyDeclaredFields(root)

\* C25: ensureInstanceAtPath applied twice with the same className, statePath
\* and data leaves the state the first application left, and applied where an
\* instance already is it changes nothing.
C25_EnsureInstanceIdempotent ==
    probe.first.type = "ensureInstanceAtPath" =>
        /\ probe.stage = 2 => probe.end = probe.mid
        /\ (probe.stage >= 1
            /\ getByPath(probe.state, Param(probe.first.params, "statePath")).k = "inst")
              => probe.mid = probe.state

C25_Witness ==
    /\ probe.first.type = "ensureInstanceAtPath"
    /\ probe.stage = 2
    /\ probe.mid # probe.state
    /\ getByPath(probe.mid, Param(probe.first.params, "statePath")).k = "inst"
    /\ probe.end = probe.mid

\* C26: setState applied a second time with the same path and value leaves
\* the state the first application left.
C26_SetStateIdempotent ==
    (probe.first.type = "setState" /\ probe.stage = 2) => probe.end = probe.mid

C26_Witness ==
    /\ probe.first.type = "setState"
    /\ probe.stage = 2
    /\ probe.mid # probe.state
    /\ getByPath(probe.mid, Param(probe.first.params, "path")) = Param(probe.first.params, "value")
    /\ probe.end = probe.mid

\* the value a call's params name with `path`, in a state
At(state, call) == getByPath(state, Param(call.params, "path"))

\* C27: increment by n followed by increment by -n on the same path leaves
\* the value at the path the value it had before, a number, nothing or a
\* non-number alike.
C27_IncrementThenDecrement ==
    (probe.first.type = "increment" /\ probe.stage = 2) =>
        At(probe.end, probe.first) = At(probe.state, probe.first)

\* incrementIfEqual's comparison: something is at equalsPath and its string
\* form is the string form of the supplied value
Matches(state, call) ==
    LET expected == getByPath(state, Param(call.params, "equalsPath"))
    IN  /\ ~IsNullish(expected)
        /\ ToStr(expected) = ToStr(Param(call.params, "value"))

\* the delta of a call: 1 when none is given
DeltaOf(call) ==
    IF Param(call.params, "delta").k = "num" THEN Param(call.params, "delta").n ELSE 1

\* C28: when incrementIfEqual matches and the value at path is not a number
\* (nothing, null, a string, a boolean), the value written is 0 + delta.
C28_NonNumberCountsAsZero ==
    (/\ probe.first.type = "incrementIfEqual"
     /\ probe.first.via = "call"
     /\ probe.stage >= 1
     /\ Matches(probe.state, probe.first)
     /\ At(probe.state, probe.first).k # "num")
        => At(probe.mid, probe.first) = Num(DeltaOf(probe.first))

\* A's score in a state, and whether the answer of an event is the correct
\* answer of A's current question in that state
ScoreOfA(state) == getByPath(state, PathOf(<<"players", "A", "score">>))

Correct(state, last) ==
    LET correctAnswer ==
            getByPath(state, PathOf(<<"players", "A", "currentQuestion", "correctAnswer">>))
    IN  /\ ~IsNullish(correctAnswer)
        /\ ToStr(correctAnswer) = ToStr(Prop(last, "value"))

AnswersSent == nmsgs - 1

QuestionAt(k) == getByPath(Prop(EnhancedQuiz, "data"), PathOf(<<"questions", ToString(k)>>))

QuestionsCount == Prop(Prop(EnhancedQuiz, "data"), "questionsCount").n

FieldOfA(field) == getByPath(root, PathOf(<<"players", "A", field>>))

\* C30: for a player of the enhanced quiz who sent start and then answers
\* once per question, the batch of the k-th answer is set 3000 ms ahead, and
\* once it has run the player's questionIndex is k, with phase question,
\* currentQuestion equal to data.questions[k] and showFeedback false when k is
\* below questionsCount, and phase finished and showFeedback false when k is
\* questionsCount.
C30_QuizProgression ==
    (AnswersSent >= 1 /\ run = <<>>) =>
        /\ \A i \in 1..Len(timers) : timers[i].delay = 3000 /\ timers[i].rem <= 3000
        /\ timers # <<>> => FieldOfA("questionIndex") = Num(AnswersSent - 1)
        /\ timers = <<>> =>
              /\ FieldOfA("questionIndex") = Num(AnswersSent)
              /\ FieldOfA("showFeedback") = Bool(FALSE)
              /\ IF AnswersSent < QuestionsCount
                 THEN /\ FieldOfA("phase") = S("question")
                      /\ \A f \in DOMAIN QuestionAt(AnswersSent).kids :
                            Prop(FieldOfA("currentQuestion"), f) = Prop(QuestionAt(AnswersSent), f)
                 ELSE /\ AnswersSent = QuestionsCount
                      /\ FieldOfA("phase") = S("finished")

C30_Witness ==
    /\ AnswersSent = QuestionsCount
    /\ run = <<>>
    /\ timers = <<>>
    /\ FieldOfA("phase") = S("finished")
    /\ FieldOfA("questionIndex") = Num(4)

\* C31: a player who has joined the enhanced-quiz room and has sent no event
\* has the Player default phase "waiting" and score 0.  (Stated here for the
\* rooms in which no client has sent anything yet.)
C31_JoinedPlayerHasDefaults ==
    \A s \in Sessions :
        (nmsgs = 0 /\ conn[s] = "joined") =>
            /\ getByPath(root, PathOf(<<"players", s, "phase">>)) = S("waiting")
            /\ getByPath(root, PathOf(<<"players", s, "score">>)) = Num(0)

\* C32: a join for a session id that already has an entry in players leaves
\* the entry and all its fields as they are and creates no second entry, and
\* the same join applied twice leaves the state the first one left.
C32_JoinIdempotent ==
    probe.first.via = "join" =>
        /\ (probe.stage >= 1
            /\ Truthy(MapGet(Prop(probe.state, "players"),
                             Prop(probe.first.params, "sessionId").s[1])))
              => probe.mid = probe.state
        /\ probe.stage = 2 => probe.end = probe.mid

C32_Witness ==
    /\ probe.first = Join("A", "Other")
    /\ probe.stage = 2
    /\ ScoreOfA(probe.state) = Num(5)
    /\ getByPath(probe.state, PathOf(<<"players", "A", "currentQuestion">>)).k = "inst"
    /\ probe.end = probe.state

\* the states the handlers of an event type lead to from a state
TargetsOn(state, eventType) ==
    LET cands == Candidates(Machine, state, eventType)
    IN  {TargetOf(cands[i], state) : i \in 1..Len(cands)}

\* C33: the transition looked up for a message is the one of the message
\* type the room received it under, whatever the payload holds under type:
\* a running machine whose state handles the type takes one of that type's
\* transitions, and a state that does not handle it ignores the message.
C33_DispatchedByMessageType ==
    [][(nmsgs' # nmsgs /\ actor.status = "active") =>
          IF cur'.mtype \in OnKeys(mstate)
          THEN /\ cur'.sel # 0
               /\ mstate' \in TargetsOn(mstate, cur'.mtype)
               /\ run' # <<>>
          ELSE mstate' = mstate /\ run' = <<>>]_vars

\* a ping whose payload names the type start has been handled in lobby by the
\* ping transition
C33_Witness ==
    /\ cur.kind = "event"
    /\ cur.mtype = "ping"
    /\ Prop(cur.event, "type") = S("start")
    /\ cur.from = "lobby"
    /\ mstate = "lobby"
    /\ run = <<>>
    /\ Trace = <<"0", "i">>

\* the action at the head of the running list as it is called: with its
\* placeholders rendered on the triggering event when a transition runs it
Rendered ==
    IF Head(run).k = "obj" /\ cur.kind # "batch"
    THEN resolveTokens(Head(run),
                       Obj([event |-> TriggeringEvent(lastEvent), state |-> root,
                            context |-> Ctx.context, data |-> Ctx.data]))
    ELSE Head(run)

\* the state paths an action names, those of the actions of its then and
\* else branches included
RECURSIVE NamedPaths(_)
NamedPaths(action) ==
    {splitPath(Param(action, key)) :
        key \in {x \in {"path", "statePath"} : Param(action, x).k = "str"}}
    \cup UNION {UNION {NamedPaths(Param(action, branch).kids[i]) :
                          i \in 1..Param(action, branch).n} :
                  branch \in {x \in {"then", "else"} : Param(action, x).k = "arr"}}

\* the places at which two states differ, as key sequences from the root
RECURSIVE Changed(_, _)
Changed(a, b) ==
    IF a = b THEN {}
    ELSE IF a.k = b.k /\ a.k \in {"obj", "inst", "map"} /\ a.cls = b.cls /\ a.n = b.n
    THEN UNION {IF key \in DOMAIN a.kids /\ key \in DOMAIN b.kids
                THEN {<<key>> \o p : p \in Changed(a.kids[key], b.kids[key])}
                ELSE {<<key>>} : key \in (DOMAIN a.kids) \cup (DOMAIN b.kids)}
    ELSE {<<>>}

IsPrefix(p, q) == Len(p) <= Len(q) /\ SubSeq(q, 1, Len(p)) = p

\* C34: an action changes only the state paths it names: every place of the
\* replicated state that differs after an action has run is the path of the
\* action, a prefix of it or below it.
C34_OnlyNamedPathsChange ==
    [][run # <<>> =>
          \A p \in Changed(root, root') :
              \E q \in NamedPaths(Rendered) : IsPrefix(p, q) \/ IsPrefix(q, p)]_vars

\* A's answer has been handled and its batch has run while B, who joined and
\* sent nothing, holds what the join gave
C34_Witness ==
    /\ run = <<>>
    /\ cur.kind = "batch"
    /\ FieldOfA("questionIndex") = Num(1)
    /\ FieldOfA("phase") = S("question")
    /\ getByPath(root, PathOf(<<"players", "B">>)) = NewPlayer(S("Player"))

\* C35: when an action of a when branch throws, the actions behind it in the
\* branch still run: after deep, whose then branch is a known action, a
\* setState below a number and another known action, the trace ends with the
\* letters of both known actions.
C35_WhenBranchGoesOn ==
    Handled("deep") => EndsWith(Trace, <<"e", "d">>)

\* C36: once the room is disposed the interpreter is stopped: no delayed
\* transition is pending, the current state never changes again, and an
\* event sent to the interpreter runs no action and leaves the replicated
\* state as it is.
C36_StoppedAfterDispose ==
    /\ [](stopped => \A i \in 1..Len(timers) : timers[i].kind # "after")
    /\ [][stopped =>
            /\ mstate' = mstate
            /\ nmsgs' # nmsgs => (root' = root /\ run' = <<>>)]_vars

\* the room was disposed in round, whose delayed transition was pending, and
\* the interpreter has been sent an answer since
C36_Witness ==
    /\ stopped
    /\ mstate = "round"
    /\ cur.kind = "event"
    /\ cur.mtype = "answer"
    /\ cur.from = "round"
    /\ actor.status = "stopped"
    /\ Count(Trace, "a") = 0

\* C37: the actions of a delayed transition are rendered on the event that
\* made the machine enter the state of the timer: when the delayed transition
\* of armed has run, the sender it noted is the sender the entry action of
\* armed noted, whatever was sent to the room while the timer was pending.
C37_AfterSeesEnteringEvent ==
    (cur.kind = "after" /\ run = <<>> /\ mstate = "fired") =>
        Prop(root, "who") = Prop(root, "entered")

\* C38: in the enhanced quiz, whatever start and answer events a player has
\* sent, also several answers before the advance of the first has run, the
\* player's questionIndex is at most data.questionsCount and the player's
\* score is at most the number of questions.
C38_IndexAndScoreBounded ==
    /\ FieldOfA("questionIndex").k = "num" => FieldOfA("questionIndex").n <= QuestionsCount
    /\ FieldOfA("score").k = "num" =>
          FieldOfA("score").n <= Prop(Prop(EnhancedQuiz, "data"), "questions").n

\* C39: for every non-empty dotted path p and value v, get(root, p) after a
\* set(root, p, v) that returned gives v, also when p descends through a keyed
\* collection whose key was missing; a set with an empty path changes nothing.
C39_PathRoundTrip ==
    /\ (probe.stage = 2 /\ probe.ok /\ ~NoPath(probe.path)) => probe.got = probe.value
    /\ (probe.stage >= 1 /\ NoPath(probe.path)) => probe.after = probe.state

====
